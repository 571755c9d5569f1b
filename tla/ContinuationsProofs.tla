------------------------ MODULE ContinuationsProofs -------------------------
(***************************************************************************)
(* What Continuations promises for any callers, replies, rules and bounds: *)
(* where a grant of the network comes from, that a result which passed     *)
(* validation can be stored, that behind every run of CODER is one the     *)
(* user started, and that of calls which follow one another only one that  *)
(* threw is made again or loses its result.                                *)
(***************************************************************************)
EXTENDS Continuations, FiniteSetTheorems, SequenceTheorems, WellFoundedInduction,
        TLAPS

CallFields == {"stage", "op", "handle", "index", "agent", "parent", "scope", "granted", "rule",
               "reply", "asked", "actions", "inv"}
LogFields == {"agent", "op", "handle", "parent", "depth", "scope", "granted", "rule", "calls",
              "actions", "result"}
Before == {"begun", "authorised", "running", "commit"}
Checked == {"authorised", "running", "commit"}

(* The tables have the shape the actions give them.                          *)
Shaped ==
  /\ \E S : log \in Seq(S)
  /\ \A n \in 1 .. Len(log) : DOMAIN log[n] = LogFields
  /\ DOMAIN records = Handles /\ DOMAIN call = Callers
  /\ \A c \in Callers : DOMAIN call[c] = CallFields

(* Only what has committed has a handle or is waited for.                    *)
Issued ==
  /\ \A h \in Handles : records[h] # NoRecord => h \in 1 .. Len(log)
  /\ \A c \in Callers : call[c].stage = "deliver" => call[c].inv \in 1 .. Len(log)

(* The agent of a call, and that of a committed invocation, is one of the    *)
(* six, and what is about to be committed was validated for it.              *)
Validated ==
  /\ \A n \in 1 .. Len(log) : log[n].agent \in Agents
  /\ \A c \in Callers : call[c].agent \in Agents
  /\ \A c \in Callers : call[c].stage = "commit" => ValidResult(call[c].agent, call[c].reply)

(* What an approval was given for is in the log, and from its authorisation  *)
(* on it is of the scope of the call: no session comes by a task again.      *)
Approval(k) ==
  /\ k.parent = k.handle /\ k.handle \in 1 .. Len(log) /\ k.agent = log[k.handle].agent
  /\ \E i \in DOMAIN log[k.handle].actions : IsNetwork(log[k.handle].actions[i], "approval_required")
  /\ k.stage \in Checked => log[k.handle].scope = k.scope
GrantedBy(k) ==
  /\ k.stage \in Before /\ k.op = "approve" => Approval(k)
  /\ k.stage \in Checked => k.scope \in {"task", "project"} /\ (k.scope = "project" => ~bound)
  /\ k.stage \in {"running", "commit"} /\ k.granted =>
       k.rule = "allow" \/ (k.rule = "ask" /\ k.op = "approve")
Traced(n) ==
  log[n].granted =>
    \/ log[n].rule = "allow"
    \/ /\ log[n].rule = "ask" /\ log[n].op = "approve" /\ log[n].parent \in 1 .. Len(log)
       /\ log[log[n].parent].agent = log[n].agent /\ log[log[n].parent].scope = log[n].scope
       /\ \E i \in DOMAIN log[log[n].parent].actions :
            IsNetwork(log[log[n].parent].actions[i], "approval_required")

GrantInv ==
  /\ Shaped /\ Issued /\ Validated /\ bound \in BOOLEAN
  /\ \A c \in Callers : GrantedBy(call[c])
  /\ \A n \in 1 .. Len(log) : Traced(n)

-----------------------------------------------------------------------------
(* A step that changes nothing but one call.                                 *)
LEMMA OneCall ==
  ASSUME GrantInv, NEW c \in Callers, NEW k, DOMAIN k = CallFields,
         call' = [call EXCEPT ![c] = k], UNCHANGED <<bound, records, log>>,
         k.agent \in Agents, k.stage # "deliver",
         k.stage = "commit" => ValidResult(k.agent, k.reply), GrantedBy(k)
  PROVE  GrantInv'
<1>1. /\ DOMAIN call' = Callers
      /\ \A d \in Callers : call'[d] = IF d = c THEN k ELSE call[d]
  BY DEF GrantInv, Shaped
<1>2. Shaped' BY <1>1 DEF GrantInv, Shaped
<1>3. Issued' BY <1>1 DEF GrantInv, Issued
<1>4. Validated' BY <1>1 DEF GrantInv, Validated
<1>5. \A d \in Callers : GrantedBy(call[d])'
  BY <1>1 DEF GrantInv, GrantedBy, Approval
<1>6. \A n \in 1 .. Len(log') : Traced(n)' BY DEF GrantInv, Traced
<1>7. QED BY <1>2, <1>3, <1>4, <1>5, <1>6 DEF GrantInv

(* A call that begins, ends or is dropped: nothing is known of it but who    *)
(* runs, and of an approval what it answers.                                 *)
LEMMA Begins ==
  ASSUME GrantInv, NEW c \in Callers, NEW op, NEW h, NEW i, NEW agent \in Agents, NEW parent,
         Begin(c, op, h, i, agent, parent),
         op = "approve" => /\ parent = h /\ h \in 1 .. Len(log) /\ agent = log[h].agent
                           /\ \E j \in DOMAIN log[h].actions : IsNetwork(log[h].actions[j], "approval_required")
  PROVE  GrantInv'
<1> DEFINE k == [Idle EXCEPT !.stage = "begun", !.op = op, !.handle = h, !.index = i,
                             !.agent = agent, !.parent = parent]
<1>1. /\ DOMAIN k = CallFields /\ k.stage = "begun" /\ k.op = op /\ k.handle = h
      /\ k.agent = agent /\ k.parent = parent
  BY DEF Idle, CallFields
<1>2. call' = [call EXCEPT ![c] = k] /\ UNCHANGED <<bound, records, log>>
  BY DEF Begin, world
<1> HIDE DEF k
<1>3. GrantedBy(k) BY <1>1 DEF GrantedBy, Approval, Checked, Before
<1>4. QED BY <1>1, <1>2, <1>3, OneCall

LEMMA Ends ==
  ASSUME GrantInv, NEW c \in Callers, call' = [call EXCEPT ![c] = Idle],
         UNCHANGED <<bound, records, log>>
  PROVE  GrantInv'
<1>1. DOMAIN Idle = CallFields /\ Idle.stage = "idle" /\ Idle.agent \in Agents
  BY DEF Idle, CallFields, Agents
<1>2. GrantedBy(Idle) BY <1>1 DEF GrantedBy, Before, Checked
<1>3. QED BY <1>1, <1>2, OneCall

-----------------------------------------------------------------------------
(* The checks before the provider runs, and its answer.                      *)
LEMMA AuthoriseKeeps ==
  ASSUME GrantInv, NEW c \in Callers, Authorise(c)
  PROVE  GrantInv'
<1> DEFINE k == [call[c] EXCEPT !.stage = "authorised", !.scope = Scope]
<1>1. DOMAIN call[c] = CallFields /\ call[c].stage = "begun" BY DEF GrantInv, Shaped, Authorise
<1>2. /\ DOMAIN k = CallFields /\ k.stage = "authorised" /\ k.scope = Scope
      /\ k.op = call[c].op /\ k.handle = call[c].handle /\ k.agent = call[c].agent
      /\ k.parent = call[c].parent
  BY <1>1 DEF CallFields
<1>3. call' = [call EXCEPT ![c] = k] /\ UNCHANGED <<bound, records, log>>
  BY DEF Authorise, world
<1>4. k.op = "approve" => log[k.handle].scope = Scope
  <2>1. call[c].op = "approve" => AuthorisesNetwork(call[c]) BY DEF Authorise
  <2>2. QED BY <1>2, <2>1 DEF AuthorisesNetwork, SameScope
<1>5. Scope \in {"task", "project"} /\ (Scope = "project" => ~bound) BY DEF Scope
<1> HIDE DEF k
<1>6. k.op = "approve" => Approval(k)
  <2>1. GrantedBy(call[c]) BY DEF GrantInv
  <2>2. QED BY <1>1, <1>2, <1>4, <2>1 DEF GrantedBy, Approval, Before
<1>7. GrantedBy(k) BY <1>2, <1>5, <1>6 DEF GrantedBy
<1>8. k.agent \in Agents BY <1>2 DEF GrantInv, Validated
<1>9. QED BY <1>2, <1>3, <1>7, <1>8, OneCall

LEMMA PrepareKeeps ==
  ASSUME GrantInv, NEW c \in Callers, Prepare(c)
  PROVE  GrantInv'
<1> DEFINE net == rules.actions["network"]
           k == [call[c] EXCEPT !.stage = "running", !.rule = net,
                                !.granted = Policy(call[c], call[c].op = "approve")]
<1>1. DOMAIN call[c] = CallFields /\ call[c].stage = "authorised" BY DEF GrantInv, Shaped, Prepare
<1>2. /\ DOMAIN k = CallFields /\ k.stage = "running" /\ k.scope = call[c].scope
      /\ k.op = call[c].op /\ k.handle = call[c].handle /\ k.agent = call[c].agent
      /\ k.parent = call[c].parent /\ k.rule = net
      /\ k.granted = Policy(call[c], call[c].op = "approve")
  BY <1>1 DEF CallFields
<1>3. call' = [call EXCEPT ![c] = k] /\ UNCHANGED <<bound, records, log>>
  BY DEF Prepare, world
<1>4. Policy(call[c], call[c].op = "approve") => net = "allow" \/ (net = "ask" /\ call[c].op = "approve")
  BY DEF Policy
<1> HIDE DEF k, net
<1>5. GrantedBy(call[c]) BY DEF GrantInv
<1>6. k.op = "approve" => Approval(k)
  BY <1>1, <1>2, <1>5 DEF GrantedBy, Approval, Before, Checked
<1>7. GrantedBy(k) BY <1>1, <1>2, <1>4, <1>5, <1>6 DEF GrantedBy, Checked
<1>8. k.agent \in Agents BY <1>2 DEF GrantInv, Validated
<1>9. QED BY <1>2, <1>3, <1>7, <1>8, OneCall

LEMMA ExecuteKeeps ==
  ASSUME GrantInv, NEW c \in Callers, Execute(c)
  PROVE  GrantInv'
<1>1. DOMAIN call[c] = CallFields /\ call[c].stage = "running" BY DEF GrantInv, Shaped, Execute
<1> DEFINE asked(r) == [i \in DOMAIN r.calls |->
                          [target |-> r.calls[i].target, purpose |-> r.calls[i].purpose,
                           status |-> ClassifyHelperCall(call[c].agent, r.calls[i],
                                        call[c].scope = "task" /\ acceptedPlan, rules)]]
           actions(r) == [i \in DOMAIN r.actions |->
                            [action |-> r.actions[i], status |-> ClassifyAction(r.actions[i], rules)]]
<1>2. PICK r \in Replies :
        /\ ValidResult(call[c].agent, r)
        /\ call' = [call EXCEPT ![c].stage = "commit", ![c].reply = r,
                                ![c].asked = asked(r), ![c].actions = actions(r)]
  BY DEF Execute
<1> DEFINE k == [call[c] EXCEPT !.stage = "commit", !.reply = r, !.asked = asked(r), !.actions = actions(r)]
<1> HIDE DEF asked, actions
<1>3. /\ DOMAIN k = CallFields /\ k.stage = "commit" /\ k.scope = call[c].scope
      /\ k.op = call[c].op /\ k.handle = call[c].handle /\ k.agent = call[c].agent
      /\ k.parent = call[c].parent /\ k.rule = call[c].rule /\ k.granted = call[c].granted
      /\ k.reply = r
  BY <1>1 DEF CallFields
<1>4. call' = [call EXCEPT ![c] = k] /\ UNCHANGED <<bound, records, log>>
  BY <1>2 DEF Execute, world
<1> HIDE DEF k
<1>5. GrantedBy(call[c]) BY DEF GrantInv
<1>6. k.op = "approve" => Approval(k)
  BY <1>1, <1>3, <1>5 DEF GrantedBy, Approval, Before, Checked
<1>7. GrantedBy(k) BY <1>1, <1>3, <1>5, <1>6 DEF GrantedBy, Checked
<1>8. k.agent \in Agents BY <1>3 DEF GrantInv, Validated
<1>9. QED BY <1>2, <1>3, <1>4, <1>7, <1>8, OneCall

-----------------------------------------------------------------------------
(* The log only grows, and of what it holds only the delivery changes.       *)
Lasting == LogFields \ {"result"}
LogKept ==
  /\ Len(log') >= Len(log)
  /\ \A n \in 1 .. Len(log) : \A f \in Lasting : log'[n][f] = log[n][f]

LEMMA CallsKeepTheirGrants ==
  ASSUME GrantInv, LogKept, NEW d \in Callers, call'[d] = call[d], bound' \in {bound, FALSE}
  PROVE  GrantedBy(call[d])'
<1>1. GrantedBy(call[d]) BY DEF GrantInv
<1>2. Len(log) \in Nat BY DEF GrantInv, Shaped
<1>3. \A n \in 1 .. Len(log) :
        log'[n].agent = log[n].agent /\ log'[n].scope = log[n].scope /\ log'[n].actions = log[n].actions
  BY DEF LogKept, Lasting, LogFields
<1>4. QED
  <2>1. Approval(call[d]) => Approval(call[d])'
    <3>1. SUFFICES ASSUME Approval(call[d]) PROVE Approval(call[d])' OBVIOUS
    <3>2. call[d].handle \in 1 .. Len(log) BY <3>1 DEF Approval
    <3>3. /\ log'[call[d].handle].agent = log[call[d].handle].agent
          /\ log'[call[d].handle].scope = log[call[d].handle].scope
          /\ log'[call[d].handle].actions = log[call[d].handle].actions
      BY <1>3, <3>2
    <3>4. call[d].handle \in 1 .. Len(log') BY <1>2, <3>2 DEF LogKept
    <3>5. \E i \in DOMAIN log'[call[d].handle].actions :
            IsNetwork(log'[call[d].handle].actions[i], "approval_required")
      BY <3>1, <3>3 DEF Approval
    <3>6. QED BY <3>1, <3>3, <3>4, <3>5 DEF Approval
  <2>2. ~bound => ~bound' BY DEF GrantInv
  <2>3. QED BY <1>1, <2>1, <2>2 DEF GrantedBy

(* An entry that was traced stays so: what it continues is not forgotten.    *)
LEMMA EntriesStayTraced ==
  ASSUME GrantInv, LogKept, Len(log') \in Nat, NEW n \in 1 .. Len(log)
  PROVE  Traced(n)'
<1>1. Traced(n) /\ Len(log) \in Nat BY DEF GrantInv, Shaped
<1>2. \A m \in 1 .. Len(log) :
        /\ log'[m].agent = log[m].agent /\ log'[m].scope = log[m].scope
        /\ log'[m].actions = log[m].actions /\ log'[m].granted = log[m].granted
        /\ log'[m].rule = log[m].rule /\ log'[m].op = log[m].op /\ log'[m].parent = log[m].parent
  BY DEF LogKept, Lasting, LogFields
<1>3. SUFFICES ASSUME log'[n].granted, log'[n].rule # "allow" PROVE Traced(n)' BY DEF Traced
<1> DEFINE p == log[n].parent
<1>4. /\ log[n].rule = "ask" /\ log[n].op = "approve" /\ p \in 1 .. Len(log)
      /\ log[p].agent = log[n].agent /\ log[p].scope = log[n].scope
      /\ \E i \in DOMAIN log[p].actions : IsNetwork(log[p].actions[i], "approval_required")
  BY <1>1, <1>2, <1>3 DEF Traced
<1>5. p \in 1 .. Len(log') BY <1>1, <1>4 DEF LogKept
<1>6. log'[n].parent = p BY <1>2
<1>7. /\ log'[p].agent = log'[n].agent /\ log'[p].scope = log'[n].scope
      /\ log'[p].actions = log[p].actions /\ log'[n].rule = "ask" /\ log'[n].op = "approve"
  BY <1>2, <1>4
<1> HIDE DEF p
<1>8. QED BY <1>4, <1>5, <1>6, <1>7 DEF Traced

(* The end of an invocation is written where it was committed.               *)
LEMMA DeliveredLog ==
  ASSUME Shaped, NEW c \in Callers, NEW how, call[c].inv \in 1 .. Len(log), Delivered(c, how)
  PROVE  /\ \E T : log' \in Seq(T)
         /\ Len(log') = Len(log) /\ Len(log) \in Nat /\ LogKept
         /\ \A n \in 1 .. Len(log) :
              /\ DOMAIN log'[n] = LogFields
              /\ log'[n].result = IF n = call[c].inv THEN how ELSE log[n].result
         /\ DOMAIN call' = Callers
         /\ \A d \in Callers : call'[d] = IF d = c THEN Idle ELSE call[d]
<1> DEFINE m == call[c].inv
           e == [log[m] EXCEPT !.result = how]
<1>1. PICK S : log \in Seq(S) BY DEF Shaped
<1> DEFINE T == S \cup {e}
<1>2. log \in Seq(T) /\ e \in T BY <1>1
<1>3. log' = [log EXCEPT ![m] = e] /\ call' = [call EXCEPT ![c] = Idle] BY DEF Delivered
<1>4. /\ DOMAIN e = LogFields /\ e.result = how /\ \A f \in Lasting : e[f] = log[m][f]
  BY DEF Shaped, Lasting, LogFields
<1> HIDE DEF e, T
<1>5. /\ log' \in Seq(T) /\ Len(log') = Len(log) /\ Len(log) \in Nat
      /\ \A i \in 1 .. Len(log) : log'[i] = IF i = m THEN e ELSE log[i]
  BY <1>2, <1>3, ExceptSeq
<1>6. LogKept BY <1>4, <1>5 DEF LogKept
<1>7. QED BY <1>3, <1>4, <1>5, <1>6 DEF Shaped

LEMMA DeliveryKeeps ==
  ASSUME GrantInv, NEW c \in Callers, NEW how, call[c].stage = "deliver", Delivered(c, how),
         DOMAIN records' = Handles,
         \A h \in Handles : records'[h] # NoRecord => h \in 1 .. Len(log)
  PROVE  GrantInv'
<1>1. Shaped /\ call[c].inv \in 1 .. Len(log) /\ bound' = bound
  BY DEF GrantInv, Issued, Delivered, world
<1>2. /\ Len(log') = Len(log) /\ Len(log) \in Nat /\ LogKept
      /\ DOMAIN call' = Callers /\ \A d \in Callers : call'[d] = IF d = c THEN Idle ELSE call[d]
  BY <1>1, DeliveredLog
<1>3. Shaped'
  <2>1. (\E T : log' \in Seq(T)) /\ \A n \in 1 .. Len(log') : DOMAIN log'[n] = LogFields
    BY <1>1, <1>2, DeliveredLog
  <2>2. \A d \in Callers : DOMAIN call'[d] = CallFields BY <1>1, <1>2 DEF Shaped, Idle, CallFields
  <2>3. QED BY <1>2, <2>1, <2>2 DEF Shaped
<1>4. Issued' BY <1>2 DEF GrantInv, Issued, Idle
<1>5. Validated'
  <2>1. \A n \in 1 .. Len(log') : log'[n].agent = log[n].agent
    BY <1>2 DEF LogKept, Lasting, LogFields
  <2>2. QED BY <1>2, <2>1 DEF GrantInv, Validated, Idle, Agents
<1>6. \A d \in Callers : GrantedBy(call[d])'
  <2>1. TAKE d \in Callers
  <2>2. CASE d = c BY <1>2, <2>2 DEF GrantedBy, Idle, Before, Checked
  <2>3. CASE d # c BY <1>1, <1>2, <2>3, CallsKeepTheirGrants
  <2>4. QED BY <2>2, <2>3
<1>7. \A n \in 1 .. Len(log') : Traced(n)' BY <1>2, EntriesStayTraced
<1>8. QED BY <1>1, <1>3, <1>4, <1>5, <1>6, <1>7 DEF GrantInv

LEMMA IssueKeeps ==
  ASSUME GrantInv, NEW c \in Callers, NEW kept, call[c].stage = "deliver", Issue(c, kept),
         DOMAIN kept = Handles, \A h \in Handles : kept[h] # NoRecord => h \in 1 .. Len(log)
  PROVE  GrantInv'
<1>1. call[c].inv \in 1 .. Len(log) BY DEF GrantInv, Issued
<1>2. records' = kept \/ records' = [kept EXCEPT ![call[c].inv] = NewRecord] BY DEF Issue
<1>3. \E how : Delivered(c, how) BY DEF Issue
<1>4. /\ DOMAIN records' = Handles
      /\ \A h \in Handles : records'[h] # NoRecord => h \in 1 .. Len(log)
  BY <1>1, <1>2
<1>5. QED BY <1>3, <1>4, DeliveryKeeps

LEMMA DeliversKeep ==
  ASSUME GrantInv, NEW c \in Callers,
         FailAfterCommit(c) \/ DeliverHelper(c) \/ DeliverResume(c) \/ DeliverInvoke(c)
  PROVE  GrantInv'
<1>1. CASE DeliverHelper(c)
  <2>1. call[c].stage = "deliver" /\ \E how : Delivered(c, how) BY <1>1 DEF DeliverHelper, Returns
  <2>2. records' = records \/ (Known(call[c].handle) /\ \E r : records' = [records EXCEPT ![call[c].handle] = r])
    BY <1>1 DEF DeliverHelper
  <2>3. /\ DOMAIN records' = Handles
        /\ \A h \in Handles : records'[h] # NoRecord => h \in 1 .. Len(log)
    BY <2>2 DEF GrantInv, Shaped, Issued, Known
  <2>4. QED BY <2>1, <2>3, DeliveryKeeps
<1>2. CASE DeliverResume(c)
  <2> DEFINE kept == [records EXCEPT ![call[c].handle] = NoRecord]
  <2>1. DOMAIN kept = Handles /\ \A h \in Handles : kept[h] # NoRecord => h \in 1 .. Len(log)
    BY DEF GrantInv, Shaped, Issued
  <2>2. call[c].stage = "deliver" /\ Issue(c, kept) BY <1>2 DEF DeliverResume, Returns
  <2> HIDE DEF kept
  <2>3. QED BY <2>1, <2>2, IssueKeeps
<1>3. CASE DeliverInvoke(c)
  <2>1. call[c].stage = "deliver" /\ Issue(c, records) BY <1>3 DEF DeliverInvoke, Returns
  <2>2. DOMAIN records = Handles /\ \A h \in Handles : records[h] # NoRecord => h \in 1 .. Len(log)
    BY DEF GrantInv, Shaped, Issued
  <2>3. QED BY <2>1, <2>2, IssueKeeps
<1>4. CASE FailAfterCommit(c)
  <2>1. call[c].stage = "deliver" /\ Delivered(c, "thrown") /\ UNCHANGED records
    BY <1>4 DEF FailAfterCommit
  <2>2. DOMAIN records' = Handles /\ \A h \in Handles : records'[h] # NoRecord => h \in 1 .. Len(log)
    BY <2>1 DEF GrantInv, Shaped, Issued
  <2>3. QED BY <2>1, <2>2, DeliveryKeeps
<1>5. QED BY <1>1, <1>2, <1>3, <1>4

(* A commit writes down where the invocation and its grant came from.        *)
LEMMA CommittedLog ==
  ASSUME Shaped, NEW c \in Callers, Commit(c)
  PROVE  /\ \E T : log' \in Seq(T)
         /\ Len(log') = Len(log) + 1 /\ Len(log) \in Nat /\ LogKept
         /\ \A n \in 1 .. Len(log) : log'[n] = log[n]
         /\ LET e == log'[Len(log) + 1]
                k == call[c]
            IN /\ DOMAIN e = LogFields /\ e.agent = k.agent /\ e.op = k.op /\ e.handle = k.handle
               /\ e.parent = k.parent /\ e.scope = Scope /\ e.granted = k.granted /\ e.rule = k.rule
               /\ e.result \in {"pending", "thrown"}
         /\ DOMAIN call' = Callers /\ \A d \in Callers \ {c} : call'[d] = call[d]
         /\ DOMAIN call'[c] = CallFields /\ call'[c].agent \in Agents /\ call'[c].stage = "deliver"
         /\ call'[c].op = call[c].op /\ call'[c].handle = call[c].handle /\ call'[c].inv = Len(log) + 1
<1>0. PICK completes \in BOOLEAN :
        log' = Append(log,
          [agent |-> call[c].agent, op |-> call[c].op, handle |-> call[c].handle,
           parent |-> call[c].parent, depth |-> Depth(call[c].parent), scope |-> Scope,
           granted |-> call[c].granted, rule |-> call[c].rule, calls |-> call[c].asked,
           actions |-> call[c].actions, result |-> IF completes THEN "pending" ELSE "thrown"])
  BY DEF Commit
<1> DEFINE k == call[c]
           n == Len(log) + 1
           how == IF completes THEN "pending" ELSE "thrown"
           e == [agent |-> k.agent, op |-> k.op, handle |-> k.handle, parent |-> k.parent,
                 depth |-> Depth(k.parent), scope |-> Scope, granted |-> k.granted,
                 rule |-> k.rule, calls |-> k.asked, actions |-> k.actions, result |-> how]
           done == [Idle EXCEPT !.stage = "deliver", !.op = k.op, !.handle = k.handle,
                                !.index = k.index, !.inv = n]
<1>1. PICK S : log \in Seq(S) BY DEF Shaped
<1> DEFINE T == S \cup {e}
<1>2. log \in Seq(T) /\ e \in T BY <1>1
<1>3. log' = Append(log, e) /\ call' = [call EXCEPT ![c] = done] BY <1>0 DEF Commit
<1>4. /\ DOMAIN e = LogFields /\ e.agent = k.agent /\ e.op = k.op /\ e.handle = k.handle
      /\ e.parent = k.parent /\ e.scope = Scope /\ e.granted = k.granted /\ e.rule = k.rule
      /\ e.result \in {"pending", "thrown"}
  BY DEF LogFields
<1>5. /\ DOMAIN done = CallFields /\ done.stage = "deliver" /\ done.agent \in Agents /\ done.inv = n
      /\ done.op = k.op /\ done.handle = k.handle
  BY DEF Idle, CallFields, Agents
<1> HIDE DEF e, T, done
<1>6. /\ log' \in Seq(T) /\ Len(log') = n /\ Len(log) \in Nat /\ log'[n] = e
      /\ \A i \in 1 .. Len(log) : log'[i] = log[i]
  BY <1>2, <1>3, AppendProperties
<1>7. LogKept BY <1>6 DEF LogKept
<1>8. /\ DOMAIN call' = Callers /\ call'[c] = done
      /\ \A d \in Callers \ {c} : call'[d] = call[d]
  BY <1>3 DEF Shaped
<1>9. QED BY <1>4, <1>5, <1>6, <1>7, <1>8

LEMMA CommitKeeps ==
  ASSUME GrantInv, NEW c \in Callers, Commit(c)
  PROVE  GrantInv'
<1> DEFINE k == call[c]
           n == Len(log) + 1
           e == log'[n]
<1>1. /\ Shaped /\ records' = records /\ bound' = bound /\ k.stage = "commit"
      /\ (k.scope = "task" => bound)
  BY DEF GrantInv, Commit
<1>2. /\ Len(log') = n /\ Len(log) \in Nat /\ LogKept /\ \A i \in 1 .. Len(log) : log'[i] = log[i]
      /\ DOMAIN e = LogFields /\ e.agent = k.agent /\ e.op = k.op /\ e.parent = k.parent
      /\ e.scope = Scope /\ e.granted = k.granted /\ e.rule = k.rule
      /\ DOMAIN call' = Callers /\ \A d \in Callers \ {c} : call'[d] = call[d]
      /\ DOMAIN call'[c] = CallFields /\ call'[c].agent \in Agents /\ call'[c].stage = "deliver"
      /\ call'[c].inv = n
  BY <1>1, CommittedLog
<1>3. \A i \in 1 .. Len(log') : i \in 1 .. Len(log) \/ i = n BY <1>2
<1>4. Shaped'
  <2>1. \A i \in 1 .. Len(log') : DOMAIN log'[i] = LogFields BY <1>1, <1>2, <1>3 DEF Shaped
  <2>2. \A d \in Callers : DOMAIN call'[d] = CallFields BY <1>1, <1>2 DEF Shaped
  <2>3. \E T : log' \in Seq(T) BY <1>1, CommittedLog
  <2>4. QED BY <1>1, <1>2, <2>1, <2>2, <2>3 DEF Shaped
<1>5. Issued'
  <2>1. n \in 1 .. Len(log') /\ \A i \in 1 .. Len(log) : i \in 1 .. Len(log') BY <1>2
  <2>2. QED BY <1>1, <1>2, <2>1 DEF GrantInv, Issued
<1>6. Validated'
  <2>1. k.agent \in Agents BY DEF GrantInv, Validated
  <2>2. \A i \in 1 .. Len(log') : log'[i].agent \in Agents
    BY <1>2, <1>3, <2>1 DEF GrantInv, Validated
  <2>3. QED BY <1>2, <2>2 DEF GrantInv, Validated
<1>7. \A d \in Callers : GrantedBy(call[d])'
  <2>1. TAKE d \in Callers
  <2>2. CASE d = c BY <1>2, <2>2 DEF GrantedBy, Before, Checked
  <2>3. CASE d # c BY <1>1, <1>2, <2>3, CallsKeepTheirGrants
  <2>4. QED BY <2>2, <2>3
<1>8. ASSUME NEW i, i = n PROVE Traced(i)'
  <2>1. GrantedBy(k) BY DEF GrantInv
  <2>2. SUFFICES ASSUME e.granted, e.rule # "allow" PROVE Traced(i)' BY <1>8 DEF Traced
  <2>3. k.rule = "ask" /\ k.op = "approve" /\ Approval(k)
    BY <1>1, <1>2, <2>1, <2>2 DEF GrantedBy, Before
  <2>4. Scope = k.scope BY <1>1, <2>1 DEF GrantedBy, Checked, Scope
  <2>5. /\ k.parent \in 1 .. Len(log) /\ log[k.parent].agent = k.agent
        /\ log[k.parent].scope = k.scope
        /\ \E j \in DOMAIN log[k.parent].actions :
             IsNetwork(log[k.parent].actions[j], "approval_required")
    BY <1>1, <2>3 DEF Approval, Checked
  <2> HIDE DEF k, n
  <2>6. log'[k.parent] = log[k.parent] /\ k.parent \in 1 .. Len(log')
    BY <1>2, <2>5 DEF n
  <2>7. /\ log'[i].rule = "ask" /\ log'[i].op = "approve" /\ log'[i].parent = k.parent
        /\ log'[i].agent = k.agent /\ log'[i].scope = k.scope
    BY <1>2, <1>8, <2>3, <2>4
  <2>8. QED BY <2>5, <2>6, <2>7 DEF Traced
<1>9. \A i \in 1 .. Len(log') : Traced(i)'
  <2>1. TAKE i \in 1 .. Len(log')
  <2>2. CASE i \in 1 .. Len(log) BY <1>2, <2>2, EntriesStayTraced
  <2>3. CASE i = n BY <1>8, <2>3
  <2>4. QED BY <1>3, <2>2, <2>3
<1>10. QED BY <1>1, <1>4, <1>5, <1>6, <1>7, <1>9 DEF GrantInv

-----------------------------------------------------------------------------
(* Every step keeps the invariant.                                           *)
LEMMA BeginningsKeep ==
  ASSUME GrantInv, NEW c \in Callers,
         \/ InvokeAgent(c) \/ ExecuteHelper(c) \/ ApproveAndExecuteHelper(c) \/ ResumeCaller(c)
         \/ ApproveNetworkAction(c) \/ ContinueAllowedNetwork(c)
  PROVE  GrantInv'
<1>1. \A h \in Handles : Known(h) => h \in 1 .. Len(log) /\ log[h].agent \in Agents
  BY DEF GrantInv, Issued, Validated, Known
<1>2. CASE InvokeAgent(c)
  <2>1. PICK agent \in UserAgents : agent \in Agents /\ Begin(c, "invoke", 0, 0, agent, 0)
    BY <1>2 DEF InvokeAgent, DirectlyInvocable
  <2>2. QED BY <2>1, Begins
<1>3. CASE ExecuteHelper(c) \/ ApproveAndExecuteHelper(c)
  <2>1. PICK h \in Handles, i \in 1 .. 2 :
          /\ log[h].calls[i].target \in Helpers
          /\ Begin(c, "helper", h, i, log[h].calls[i].target, h)
    BY <1>3 DEF ExecuteHelper, ApproveAndExecuteHelper, RunHelper
  <2>2. log[h].calls[i].target \in Agents BY <2>1 DEF Helpers
  <2>3. QED BY <2>1, <2>2, Begins
<1>4. CASE ResumeCaller(c)
  <2>1. PICK h \in Handles : Known(h) /\ Begin(c, "resume", h, 0, log[h].agent, records[h].helper)
    BY <1>4 DEF ResumeCaller
  <2>2. QED BY <1>1, <2>1, Begins
<1>5. CASE ApproveNetworkAction(c)
  <2>1. PICK h \in Handles, i \in 1 .. 2 :
          /\ Known(h) /\ i \in DOMAIN log[h].actions
          /\ IsNetwork(log[h].actions[i], "approval_required")
          /\ Begin(c, "approve", h, i, log[h].agent, h)
    BY <1>5 DEF ApproveNetworkAction
  <2>2. \E j \in DOMAIN log[h].actions : IsNetwork(log[h].actions[j], "approval_required")
    BY <2>1
  <2>3. QED BY <1>1, <2>1, <2>2, Begins
<1>6. CASE ContinueAllowedNetwork(c)
  <2>1. PICK h \in Handles, i \in 1 .. 2 : Known(h) /\ Begin(c, "continue", h, i, log[h].agent, h)
    BY <1>6 DEF ContinueAllowedNetwork
  <2>2. QED BY <1>1, <2>1, Begins
<1>7. QED BY <1>2, <1>3, <1>4, <1>5, <1>6

LEMMA WorldKeeps ==
  ASSUME GrantInv, LoseTask \/ EndTask \/ DecidePlan \/ SetRules \/ UNCHANGED vars
  PROVE  GrantInv'
<1>1. UNCHANGED <<records, call, log>> /\ bound' \in {bound, FALSE}
  BY DEF LoseTask, EndTask, DecidePlan, SetRules, vars, world
<1>2. Shaped' /\ Issued' /\ Validated' /\ bound' \in BOOLEAN
  BY <1>1 DEF GrantInv, Shaped, Issued, Validated
<1>3. LogKept /\ Len(log') \in Nat BY <1>1 DEF LogKept, GrantInv, Shaped
<1>4. \A d \in Callers : GrantedBy(call[d])' BY <1>1, <1>3, CallsKeepTheirGrants
<1>5. \A n \in 1 .. Len(log') : Traced(n)' BY <1>1, <1>3, EntriesStayTraced
<1>6. QED BY <1>2, <1>4, <1>5 DEF GrantInv

LEMMA RestartKeeps == GrantInv /\ Restart => GrantInv'
<1> SUFFICES ASSUME GrantInv, Restart PROVE GrantInv' OBVIOUS
<1>1. /\ UNCHANGED <<bound, log>> /\ records' = [h \in Handles |-> NoRecord]
      /\ call' = [c \in Callers |-> Idle]
  BY DEF Restart, world
<1>2. DOMAIN Idle = CallFields /\ Idle.stage = "idle" /\ Idle.agent \in Agents
  BY DEF Idle, CallFields, Agents
<1>3. Shaped' BY <1>1, <1>2 DEF GrantInv, Shaped
<1>4. Issued' /\ Validated' BY <1>1, <1>2 DEF GrantInv, Issued, Validated
<1>5. \A d \in Callers : GrantedBy(call[d])' BY <1>1, <1>2 DEF GrantedBy, Before, Checked
<1>6. \A n \in 1 .. Len(log') : Traced(n)' BY <1>1 DEF GrantInv, Traced
<1>7. QED BY <1>1, <1>3, <1>4, <1>5, <1>6 DEF GrantInv

LEMMA GrantsInductive == Spec => []GrantInv
<1>1. Init => GrantInv
  <2> SUFFICES ASSUME Init PROVE GrantInv OBVIOUS
  <2>1. DOMAIN Idle = CallFields /\ Idle.stage = "idle" /\ Idle.agent \in Agents
    BY DEF Idle, CallFields, Agents
  <2>2. log = <<>> /\ log \in Seq({}) /\ Len(log) = 0 /\ 1 .. Len(log) = {} BY DEF Init
  <2>3. Shaped BY <2>1, <2>2 DEF Init, Shaped
  <2>4. Issued /\ Validated BY <2>1, <2>2 DEF Init, Issued, Validated
  <2>5. \A c \in Callers : GrantedBy(call[c]) BY <2>1 DEF Init, GrantedBy, Before, Checked
  <2>6. QED BY <2>2, <2>3, <2>4, <2>5 DEF Init, GrantInv
<1>2. GrantInv /\ [Next]_vars => GrantInv'
  <2> SUFFICES ASSUME GrantInv, [Next]_vars PROVE GrantInv' OBVIOUS
  <2>1. ASSUME NEW c \in Callers,
               \/ InvokeAgent(c) \/ ExecuteHelper(c) \/ ApproveAndExecuteHelper(c) \/ ResumeCaller(c)
               \/ ApproveNetworkAction(c) \/ ContinueAllowedNetwork(c)
        PROVE  GrantInv'
    BY <2>1, BeginningsKeep
  <2>2. ASSUME NEW c \in Callers, Authorise(c) \/ Prepare(c) \/ Execute(c) PROVE GrantInv'
    BY <2>2, AuthoriseKeeps, PrepareKeeps, ExecuteKeeps
  <2>3. ASSUME NEW c \in Callers, Fail(c) PROVE GrantInv'
    <3>1. call' = [call EXCEPT ![c] = Idle] /\ UNCHANGED <<bound, records, log>>
      BY <2>3 DEF Fail, world
    <3>2. QED BY <3>1, Ends
  <2>4. ASSUME NEW c \in Callers, Commit(c) PROVE GrantInv' BY <2>4, CommitKeeps
  <2>5. ASSUME NEW c \in Callers, FailAfterCommit(c) \/ DeliverHelper(c) \/ DeliverResume(c) \/ DeliverInvoke(c)
        PROVE  GrantInv'
    BY <2>5, DeliversKeep
  <2>6. QED BY <2>1, <2>2, <2>3, <2>4, <2>5, WorldKeeps, RestartKeeps DEF Next
<1>3. QED BY <1>1, <1>2, PTL DEF Spec

(* The network is open to an agent only by the rule, or because this one     *)
(* call was the user's approval of what the same agent had asked for in the  *)
(* same scope, whatever happened to the task and the rules in between.       *)
THEOREM GrantsAreTraced == Spec => []NetworkGrantTraceable
<1>1. GrantInv => NetworkGrantTraceable BY DEF GrantInv, Traced, NetworkGrantTraceable
<1>2. QED BY <1>1, GrantsInductive, PTL

(* What the validator lets pass, the managers store.                         *)
LEMMA ValidIsStorable ==
  ASSUME NEW agent \in Agents, NEW r, ValidResult(agent, r)
  PROVE  Storable(r)
<1>1. r.agent = agent BY DEF ValidResult
<1>2. CASE agent = "questioner"
  <2>1. ValidQuestioner(r) BY <1>2 DEF ValidResult
  <2>2. QED BY <1>1, <1>2, <2>1
        DEF ValidQuestioner, OnlyFields, Storable, StorablePayload, PayloadFields, Has
<1>3. CASE agent \in {"researcher", "coder"}
  <2>1. ValidPayload(r, "researchArtifact") \/ ValidPayload(r, "workRecord") BY <1>3 DEF ValidResult
  <2>2. QED BY <1>1, <1>3, <2>1
        DEF ValidPayload, OnlyFields, Storable, StorablePayload, PayloadFields, Has, Field
<1>4. CASE agent \in {"examiner", "planner"}
  <2>1. ValidExaminer(r) \/ ValidPlanner(r) BY <1>4 DEF ValidResult
  <2>2. QED BY <1>1, <1>4, <2>1 DEF ValidExaminer, ValidPlanner, OnlyFields, Storable, PayloadFields, Has
<1>5. CASE agent = "reviewer"
  <2>1. ValidReviewer(r) BY <1>5 DEF ValidResult
  <2>2. StorableReview(r) BY <2>1 DEF ValidReviewer, StorableReview
  <2>3. \A field \in PayloadFields : Has(r, field) => StorablePayload(r.body[field])
    BY <2>1 DEF ValidReviewer, OnlyFields, StorablePayload, PayloadFields, Has, Field
  <2>4. QED BY <2>2, <2>3 DEF Storable
<1>6. QED BY <1>2, <1>3, <1>4, <1>5 DEF Agents

(* The artifact manager never turns down a result at the commit boundary.    *)
THEOREM ValidatedResultsAreStored == Spec => []ValidatedIsStorable
<1>1. GrantInv => ValidatedIsStorable
  <2> SUFFICES ASSUME GrantInv, NEW c \in Callers, call[c].stage = "commit"
               PROVE  Storable(call[c].reply)
    BY DEF ValidatedIsStorable
  <2>1. call[c].agent \in Agents /\ ValidResult(call[c].agent, call[c].reply)
    BY DEF GrantInv, Validated
  <2>2. QED BY <2>1, ValidIsStorable
<1>2. QED BY <1>1, GrantsInductive, PTL

-----------------------------------------------------------------------------
(* Where an invocation comes from: what continues a caller runs the same     *)
(* agent, what was asked for is no CODER, and a resumed caller continues a   *)
(* helper of its own.                                                        *)
Descends(entries, k, last) ==
  /\ k.op \in {"helper", "approve", "continue"} => k.parent = k.handle /\ k.handle \in 1 .. last
  /\ k.op = "helper" => k.agent # "coder"
  /\ k.op \in {"approve", "continue"} => entries[k.handle].agent = k.agent
  /\ k.op = "resume" => k.parent \in 1 .. last
HelpedBy(entries, k) ==
  entries[k.parent].op = "helper" /\ entries[entries[k.parent].handle].agent = k.agent
LineageInv ==
  /\ \A h \in Handles : Known(h) /\ records[h].state = "helper_completed" =>
       records[h].helper \in 1 .. Len(log)
  /\ \A c \in Callers : call[c].stage \in Before =>
       /\ call[c].op \in Ops /\ Descends(log, call[c], Len(log))
       /\ call[c].stage \in Checked /\ call[c].op = "resume" => HelpedBy(log, call[c])
  /\ \A n \in 1 .. Len(log) :
       /\ log[n].op \in Ops /\ Descends(log, log[n], n - 1)
       /\ log[n].op = "resume" => HelpedBy(log, log[n])

LEMMA LineageStays ==
  ASSUME GrantInv, GrantInv', LineageInv, LogKept, NEW last \in 0 .. Len(log), NEW k
  PROVE  /\ Descends(log, k, last) => Descends(log', k, last)
         /\ Descends(log, k, last) /\ k.op = "resume" /\ HelpedBy(log, k) => HelpedBy(log', k)
<1>1. Len(log) \in Nat /\ Len(log') \in Nat BY DEF GrantInv, Shaped
<1>2. \A n \in 1 .. Len(log) :
        log'[n].agent = log[n].agent /\ log'[n].op = log[n].op /\ log'[n].handle = log[n].handle
  BY DEF LogKept, Lasting, LogFields
<1>3. 1 .. last \subseteq 1 .. Len(log) BY <1>1
<1>4. Descends(log, k, last) => Descends(log', k, last) BY <1>2, <1>3 DEF Descends
<1>5. ASSUME Descends(log, k, last), k.op = "resume", HelpedBy(log, k) PROVE HelpedBy(log', k)
  <2> DEFINE p == k.parent
  <2>1. p \in 1 .. Len(log) /\ log[p].op = "helper" BY <1>3, <1>5 DEF Descends, HelpedBy
  <2>2. log[p].handle \in 1 .. p - 1 BY <2>1 DEF LineageInv, Descends
  <2>3. log[p].handle \in 1 .. Len(log) BY <1>1, <2>1, <2>2
  <2>4. QED BY <1>2, <1>5, <2>1, <2>3 DEF HelpedBy
<1>6. QED BY <1>4, <1>5

(* A step that leaves the log its length.                                    *)
LEMMA LineageKept ==
  ASSUME GrantInv, GrantInv', LineageInv, LogKept, Len(log') = Len(log),
         \A h \in Handles : records'[h] # NoRecord /\ records'[h].state = "helper_completed" =>
           \/ records'[h] = records[h]
           \/ records'[h].helper \in 1 .. Len(log),
         \A c \in Callers : call'[c].stage \in Before =>
           \/ call'[c] = call[c]
           \/ /\ call'[c].op \in Ops /\ Descends(log, call'[c], Len(log))
              /\ call'[c].stage \in Checked /\ call'[c].op = "resume" => HelpedBy(log, call'[c])
  PROVE  LineageInv'
<1>1. Len(log) \in Nat BY DEF GrantInv, Shaped
<1>2. \A h \in Handles : records'[h] # NoRecord /\ records'[h].state = "helper_completed" =>
        records'[h].helper \in 1 .. Len(log')
  BY DEF LineageInv, Known
<1>3. ASSUME NEW c \in Callers, call'[c].stage \in Before
      PROVE  /\ call'[c].op \in Ops /\ Descends(log', call'[c], Len(log'))
             /\ call'[c].stage \in Checked /\ call'[c].op = "resume" => HelpedBy(log', call'[c])
  <2>1. /\ call'[c].op \in Ops /\ Descends(log, call'[c], Len(log))
        /\ call'[c].stage \in Checked /\ call'[c].op = "resume" => HelpedBy(log, call'[c])
    BY <1>3 DEF LineageInv
  <2>2. Len(log) \in 0 .. Len(log) BY <1>1
  <2>3. QED BY <2>1, <2>2, LineageStays
<1>4. ASSUME NEW n \in 1 .. Len(log')
      PROVE  /\ log'[n].op \in Ops /\ Descends(log', log'[n], n - 1)
             /\ log'[n].op = "resume" => HelpedBy(log', log'[n])
  <2>1. n \in 1 .. Len(log) /\ n - 1 \in 0 .. Len(log) BY <1>1
  <2>2. /\ log'[n].op = log[n].op /\ log'[n].parent = log[n].parent
        /\ log'[n].handle = log[n].handle /\ log'[n].agent = log[n].agent
    BY <2>1 DEF LogKept, Lasting, LogFields
  <2>3. /\ log[n].op \in Ops /\ Descends(log, log[n], n - 1)
        /\ log[n].op = "resume" => HelpedBy(log, log[n])
    BY <2>1 DEF LineageInv
  <2>4. Descends(log', log[n], n - 1) /\ (log[n].op = "resume" => HelpedBy(log', log[n]))
    BY <2>1, <2>3, LineageStays
  <2>5. QED BY <2>2, <2>3, <2>4 DEF Descends, HelpedBy
<1>5. QED BY <1>2, <1>3, <1>4 DEF LineageInv, Known

(* A call under way keeps who it is for and what it continues.               *)
LEMMA CallMovesOn ==
  ASSUME GrantInv, NEW c \in Callers, Authorise(c) \/ Prepare(c) \/ Execute(c)
  PROVE  /\ UNCHANGED <<log, records, overlapped>> /\ DOMAIN call' = Callers
         /\ \A d \in Callers \ {c} : call'[d] = call[d]
         /\ \A f \in {"op", "handle", "agent", "parent"} : call'[c][f] = call[c][f]
         /\ call[c].stage \in Before /\ call'[c].stage \in Checked
<1>1. DOMAIN call[c] = CallFields /\ DOMAIN call = Callers BY DEF GrantInv, Shaped
<1>2. CASE Authorise(c) BY <1>1, <1>2 DEF Authorise, CallFields, Before, Checked
<1>3. CASE Prepare(c) BY <1>1, <1>3 DEF Prepare, CallFields, Before, Checked
<1>4. CASE Execute(c)
  <2>1. PICK r, asked, actions :
          call' = [call EXCEPT ![c].stage = "commit", ![c].reply = r, ![c].asked = asked, ![c].actions = actions]
    BY <1>4 DEF Execute
  <2>2. UNCHANGED <<log, records, overlapped>> /\ call[c].stage = "running" BY <1>4 DEF Execute
  <2>3. QED BY <1>1, <2>1, <2>2 DEF CallFields, Before, Checked
<1>5. QED BY <1>2, <1>3, <1>4

(* The calls that begin, with what they are refused without.                 *)
Begun(c, op, h, agent, parent) ==
  /\ UNCHANGED <<log, records>> /\ DOMAIN call' = Callers
  /\ \A d \in Callers \ {c} : call'[d] = call[d]
  /\ call[c].stage = "idle" /\ call'[c].stage = "begun" /\ call'[c].op = op /\ call'[c].handle = h
  /\ call'[c].agent = agent /\ call'[c].parent = parent
  /\ overlapped' = overlapped \cup {g \in {h} \ {0} : \E d \in Busy : call[d].handle = g}

LEMMA BeginBegins ==
  ASSUME GrantInv, NEW c \in Callers, NEW op, NEW h, NEW i, NEW agent, NEW parent,
         Begin(c, op, h, i, agent, parent)
  PROVE  Begun(c, op, h, agent, parent)
BY DEF GrantInv, Shaped, Begin, Begun, Idle

LEMMA CallsBegin ==
  ASSUME GrantInv, NEW c \in Callers,
         \/ InvokeAgent(c) \/ ExecuteHelper(c) \/ ApproveAndExecuteHelper(c) \/ ResumeCaller(c)
         \/ ApproveNetworkAction(c) \/ ContinueAllowedNetwork(c)
  PROVE  \/ \E agent : Begun(c, "invoke", 0, agent, 0)
         \/ \E h \in Handles : Known(h) /\ records[h].state = "origin_pending" /\
              \/ \E agent : agent # "coder" /\ Begun(c, "helper", h, agent, h)
              \/ \E op \in {"approve", "continue"} : Begun(c, op, h, log[h].agent, h)
         \/ \E h \in Handles : /\ Known(h) /\ records[h].state = "helper_completed"
                              /\ Begun(c, "resume", h, log[h].agent, records[h].helper)
<1>1. CASE InvokeAgent(c)
  <2>1. PICK agent \in UserAgents : Begin(c, "invoke", 0, 0, agent, 0) BY <1>1 DEF InvokeAgent
  <2>2. QED BY <2>1, BeginBegins
<1>2. CASE ExecuteHelper(c) \/ ApproveAndExecuteHelper(c)
  <2>1. PICK h \in Handles, i \in 1 .. 2 :
          /\ Known(h) /\ records[h].state = "origin_pending" /\ log[h].calls[i].target \in Helpers
          /\ Begin(c, "helper", h, i, log[h].calls[i].target, h)
    BY <1>2 DEF ExecuteHelper, ApproveAndExecuteHelper, RunHelper
  <2>2. log[h].calls[i].target # "coder" BY <2>1 DEF Helpers
  <2>3. QED BY <2>1, <2>2, BeginBegins
<1>3. CASE ResumeCaller(c)
  <2>1. PICK h \in Handles : /\ Known(h) /\ records[h].state = "helper_completed"
                             /\ Begin(c, "resume", h, 0, log[h].agent, records[h].helper)
    BY <1>3 DEF ResumeCaller
  <2>2. QED BY <2>1, BeginBegins
<1>4. CASE ApproveNetworkAction(c) \/ ContinueAllowedNetwork(c)
  <2>1. PICK h \in Handles, i \in 1 .. 2, op \in {"approve", "continue"} :
          /\ Known(h) /\ records[h].state = "origin_pending" /\ Begin(c, op, h, i, log[h].agent, h)
    BY <1>4 DEF ApproveNetworkAction, ContinueAllowedNetwork
  <2>2. QED BY <2>1, BeginBegins
<1>5. QED BY <1>1, <1>2, <1>3, <1>4

(* What a delivery does to the table.                                        *)
LEMMA TableAfterDelivery ==
  ASSUME GrantInv, NEW c \in Callers,
         FailAfterCommit(c) \/ DeliverHelper(c) \/ DeliverResume(c) \/ DeliverInvoke(c)
  PROVE  /\ call[c].stage = "deliver" /\ (\E how : Delivered(c, how))
         /\ \A h \in Handles : \/ records'[h] = records[h] \/ records'[h] = NoRecord
                              \/ records'[h].state = "origin_pending"
                              \/ records'[h].helper \in 1 .. Len(log)
<1>1. CASE DeliverHelper(c)
  <2>1. call[c].stage = "deliver" /\ (\E how : Delivered(c, how)) /\ call[c].inv \in 1 .. Len(log)
    BY <1>1 DEF DeliverHelper, Returns, GrantInv, Issued
  <2>2. \/ records' = records
        \/ \E e : records' = [records EXCEPT ![call[c].handle] =
                                [state |-> "helper_completed", helper |-> call[c].inv, executed |-> e]]
    BY <1>1 DEF DeliverHelper, HelperDone
  <2>3. ASSUME NEW h \in Handles, records'[h] # records[h] PROVE records'[h].helper \in 1 .. Len(log)
    <3>1. PICK e : records'[h] = [state |-> "helper_completed", helper |-> call[c].inv, executed |-> e]
      BY <2>2, <2>3 DEF GrantInv, Shaped
    <3>2. records'[h].helper = call[c].inv BY <3>1
    <3>3. QED BY <2>1, <3>2
  <2>4. QED BY <2>1, <2>3
<1>2. CASE DeliverResume(c) \/ DeliverInvoke(c)
  <2>1. PICK kept : /\ Issue(c, kept) /\ call[c].stage = "deliver"
                    /\ kept = records \/ kept = [records EXCEPT ![call[c].handle] = NoRecord]
    BY <1>2 DEF DeliverResume, DeliverInvoke, Returns
  <2>2. \A h \in Handles : kept[h] = records[h] \/ kept[h] = NoRecord BY <2>1 DEF GrantInv, Shaped
  <2>3. (records' = kept \/ records' = [kept EXCEPT ![call[c].inv] = NewRecord]) /\ \E how : Delivered(c, how)
    BY <2>1 DEF Issue
  <2>4. QED BY <2>1, <2>2, <2>3 DEF GrantInv, Shaped, NewRecord
<1>3. CASE FailAfterCommit(c) BY <1>3 DEF FailAfterCommit
<1>4. QED BY <1>1, <1>2, <1>3

LEMMA LineageStep ==
  ASSUME GrantInv, GrantInv', LineageInv, [Next]_vars
  PROVE  LineageInv'
<1>0. Len(log) \in Nat BY DEF GrantInv, Shaped
<1>1. ASSUME UNCHANGED log PROVE LogKept /\ Len(log') = Len(log) BY <1>0, <1>1 DEF LogKept
<1>2. ASSUME NEW c \in Callers,
             \/ InvokeAgent(c) \/ ExecuteHelper(c) \/ ApproveAndExecuteHelper(c) \/ ResumeCaller(c)
             \/ ApproveNetworkAction(c) \/ ContinueAllowedNetwork(c)
      PROVE  LineageInv'
  <2>1. /\ UNCHANGED <<log, records>> /\ \A d \in Callers \ {c} : call'[d] = call[d]
        /\ call'[c].stage = "begun"
    BY <1>2, CallsBegin DEF Begun
  <2>2. call'[c].op \in Ops /\ Descends(log, call'[c], Len(log))
    BY <1>2, CallsBegin DEF Begun, Ops, Descends, GrantInv, Issued, Known, LineageInv
  <2>3. QED BY <1>1, <2>1, <2>2, LineageKept DEF Checked
<1>3. ASSUME NEW c \in Callers, Authorise(c) \/ Prepare(c) \/ Execute(c) PROVE LineageInv'
  <2>1. /\ UNCHANGED <<log, records>> /\ \A d \in Callers \ {c} : call'[d] = call[d]
        /\ call'[c].op = call[c].op /\ call'[c].handle = call[c].handle
        /\ call'[c].agent = call[c].agent /\ call'[c].parent = call[c].parent /\ call[c].stage \in Before
    BY <1>3, CallMovesOn
  <2>2. call[c].op \in Ops /\ Descends(log, call[c], Len(log)) BY <2>1 DEF LineageInv
  <2>3. call[c].op = "resume" => HelpedBy(log, call[c])
    <3>1. CASE Authorise(c)
      BY <3>1 DEF Authorise, AuthorisesResume, IntegralContinuation, HelpedBy
    <3>2. CASE Prepare(c) \/ Execute(c)
      BY <2>1, <3>2 DEF Prepare, Execute, LineageInv, Checked
    <3>3. QED BY <1>3, <3>1, <3>2
  <2>4. /\ call'[c].op \in Ops /\ Descends(log, call'[c], Len(log))
        /\ call'[c].op = "resume" => HelpedBy(log, call'[c])
    BY <2>1, <2>2, <2>3 DEF Descends, HelpedBy
  <2>5. QED BY <1>1, <2>1, <2>4, LineageKept
<1>4. ASSUME NEW c \in Callers, Fail(c) PROVE LineageInv'
  <2>1. /\ UNCHANGED <<log, records>>
        /\ \A d \in Callers : call'[d] = call[d] \/ call'[d].stage = "idle"
    BY <1>4 DEF Fail, GrantInv, Shaped, Idle
  <2>2. QED BY <1>1, <2>1, LineageKept DEF Before
<1>5. ASSUME NEW c \in Callers,
             FailAfterCommit(c) \/ DeliverHelper(c) \/ DeliverResume(c) \/ DeliverInvoke(c)
      PROVE  LineageInv'
  <2>1. PICK how : Delivered(c, how) /\ call[c].stage = "deliver" BY <1>5, TableAfterDelivery
  <2>2. /\ LogKept /\ Len(log') = Len(log)
        /\ \A d \in Callers : call'[d] = call[d] \/ call'[d].stage = "idle"
    BY <2>1, DeliveredLog DEF GrantInv, Issued, Idle
  <2>3. \A h \in Handles : records'[h] # NoRecord /\ records'[h].state = "helper_completed" =>
          records'[h] = records[h] \/ records'[h].helper \in 1 .. Len(log)
    BY <1>5, TableAfterDelivery
  <2>4. QED BY <2>2, <2>3, LineageKept DEF Before
<1>6. CASE LoseTask \/ EndTask \/ DecidePlan \/ SetRules \/ UNCHANGED vars
  <2>1. UNCHANGED <<log, records, call>>
    BY <1>6 DEF LoseTask, EndTask, DecidePlan, SetRules, vars
  <2>2. QED BY <1>1, <2>1, LineageKept
<1>7. CASE Restart
  <2>1. /\ UNCHANGED log /\ \A d \in Callers : call'[d].stage = "idle"
        /\ \A h \in Handles : records'[h] = NoRecord
    BY <1>7 DEF Restart, Idle
  <2>2. QED BY <1>1, <2>1, LineageKept DEF Before
<1>8. ASSUME NEW c \in Callers, Commit(c) PROVE LineageInv'
  <2> DEFINE n == Len(log) + 1
             e == log'[n]
  <2>1. /\ Len(log') = n /\ LogKept /\ \A i \in 1 .. Len(log) : log'[i] = log[i]
        /\ e.agent = call[c].agent /\ e.op = call[c].op /\ e.handle = call[c].handle
        /\ e.parent = call[c].parent
        /\ \A d \in Callers \ {c} : call'[d] = call[d]
        /\ call'[c].stage = "deliver"
    BY <1>8, CommittedLog DEF GrantInv
  <2>2. records' = records /\ call[c].stage = "commit" BY <1>8 DEF Commit
  <2>3. Len(log) \in 0 .. Len(log) BY <1>0
  <2>4. ASSUME NEW h \in Handles, Known(h)', records'[h].state = "helper_completed"
        PROVE  records'[h].helper \in 1 .. Len(log')
    BY <1>0, <2>1, <2>2, <2>4 DEF LineageInv, Known
  <2>5. ASSUME NEW d \in Callers, call'[d].stage \in Before
        PROVE  /\ call'[d].op \in Ops /\ Descends(log', call'[d], Len(log'))
               /\ call'[d].stage \in Checked /\ call'[d].op = "resume" => HelpedBy(log', call'[d])
    <3>1. d # c /\ call'[d] = call[d] BY <2>1, <2>5 DEF Before
    <3>2. /\ call[d].op \in Ops /\ Descends(log, call[d], Len(log))
          /\ call[d].stage \in Checked /\ call[d].op = "resume" => HelpedBy(log, call[d])
      BY <2>5, <3>1 DEF LineageInv
    <3>3. Descends(log', call[d], Len(log)) /\
          (call[d].stage \in Checked /\ call[d].op = "resume" => HelpedBy(log', call[d]))
      BY <2>1, <2>3, <3>2, LineageStays
    <3>4. Descends(log', call[d], Len(log')) BY <1>0, <2>1, <3>3 DEF Descends
    <3>5. QED BY <3>1, <3>2, <3>3, <3>4
  <2>6. ASSUME NEW i \in 1 .. Len(log)
        PROVE  /\ log'[i].op \in Ops /\ Descends(log', log'[i], i - 1)
               /\ log'[i].op = "resume" => HelpedBy(log', log'[i])
    <3>1. /\ log'[i] = log[i] /\ i - 1 \in 0 .. Len(log)
          /\ log[i].op \in Ops /\ Descends(log, log[i], i - 1)
          /\ log[i].op = "resume" => HelpedBy(log, log[i])
      BY <1>0, <2>1 DEF LineageInv
    <3>2. QED BY <2>1, <3>1, LineageStays
  <2>7. /\ e.op \in Ops /\ Descends(log', e, Len(log)) /\ (e.op = "resume" => HelpedBy(log', e))
    <3>1. /\ call[c].op \in Ops /\ Descends(log, call[c], Len(log))
          /\ call[c].op = "resume" => HelpedBy(log, call[c])
      BY <2>2 DEF LineageInv, Before, Checked
    <3>2. Descends(log', call[c], Len(log)) /\ (call[c].op = "resume" => HelpedBy(log', call[c]))
      BY <2>1, <2>3, <3>1, LineageStays
    <3>3. QED BY <2>1, <3>1, <3>2 DEF Descends, HelpedBy
  <2>8. ASSUME NEW i \in 1 .. Len(log')
        PROVE  /\ log'[i].op \in Ops /\ Descends(log', log'[i], i - 1)
               /\ log'[i].op = "resume" => HelpedBy(log', log'[i])
    <3>1. CASE i \in 1 .. Len(log) BY <2>6, <3>1
    <3>2. CASE i = n /\ i - 1 = Len(log) BY <2>7, <3>2
    <3>3. QED BY <1>0, <2>1, <3>1, <3>2
  <2> HIDE DEF e, n
  <2>9. QED BY <2>4, <2>5, <2>8 DEF LineageInv
<1>9. QED BY <1>2, <1>3, <1>4, <1>5, <1>6, <1>7, <1>8 DEF Next

LEMMA LineageInductive == Spec => []LineageInv
<1>1. Init => LineageInv
  <2> SUFFICES ASSUME Init PROVE LineageInv OBVIOUS
  <2>1. Len(log) = 0 /\ 1 .. Len(log) = {} BY DEF Init
  <2>2. QED BY <2>1 DEF Init, LineageInv, Known, Idle, Before
<1>2. GrantInv /\ GrantInv' /\ LineageInv /\ [Next]_vars => LineageInv' BY LineageStep
<1>3. QED BY <1>1, <1>2, GrantsInductive, PTL DEF Spec

LEMMA HasLeast ==
  ASSUME NEW C \in SUBSET Nat, C # {}
  PROVE  \E m \in C : \A k \in C : ~(k < m)
<1> DEFINE R == OpToRel(<, Nat)
<1>1. PICK m \in C : \A k \in C : ~(<<k, m>> \in R) BY NatLessThanWellFounded, WFMin, Zenon
<1>2. \A k \in C : ~(k < m) BY <1>1 DEF OpToRel
<1>3. QED BY <1>2

(* Behind every run of CODER, however long the chain of continuations, is    *)
(* one the user started: the first of CODER among those it goes back to.     *)
THEOREM CoderIsTheUsers == Spec => []CoderOnlyByUser
<1>1. GrantInv /\ LineageInv => CoderOnlyByUser
  <2> SUFFICES ASSUME GrantInv, LineageInv, NEW n \in 1 .. Len(log), log[n].agent = "coder",
                      NEW A \in SUBSET (1 .. n), n \in A, ClosedUnderParents(A)
               PROVE  \E m \in A : log[m].agent = "coder" /\ log[m].op = "invoke"
    BY DEF CoderOnlyByUser
  <2> DEFINE C == {m \in A : log[m].agent = "coder"}
  <2>0. Len(log) \in Nat BY DEF GrantInv, Shaped
  <2>1. C \subseteq Nat /\ C # {} /\ \A m \in A : m \in 1 .. Len(log)
    <3>1. ASSUME NEW m \in A PROVE m \in 1 .. Len(log) /\ m \in Nat
      <4>1. m \in 1 .. n /\ n \in 1 .. Len(log) OBVIOUS
      <4> HIDE DEF C
      <4>2. QED BY <2>0, <4>1, SMT
    <3>2. n \in C OBVIOUS
    <3>3. C \subseteq Nat BY <3>1
    <3>4. QED BY <3>1, <3>2, <3>3
  <2>2. PICK m \in C : \A k \in C : ~(k < m) BY <2>1, HasLeast, Zenon
  <2>3. \A k \in C : ~(k < m) BY <2>2
  <2>4. m \in 1 .. Len(log) /\ m \in A /\ log[m].agent = "coder" BY <2>1
  <2>5. log[m].op \in Ops /\ Descends(log, log[m], m - 1) /\ (log[m].op = "resume" => HelpedBy(log, log[m]))
    BY <2>4 DEF LineageInv
  <2>6. log[m].op # "helper" BY <2>4, <2>5 DEF Descends
  <2>7. ASSUME log[m].op \in {"approve", "continue"} PROVE FALSE
    <3>1. log[m].parent \in 1 .. m - 1 /\ log[log[m].parent].agent = "coder"
      BY <2>4, <2>5, <2>7 DEF Descends
    <3>2. log[m].parent \in A BY <2>4, <3>1 DEF ClosedUnderParents
    <3>3. QED BY <2>3, <2>4, <3>1, <3>2
  <2>8. ASSUME log[m].op = "resume" PROVE FALSE
    <3> DEFINE p == log[m].parent
               h == log[p].handle
    <3>1. p \in 1 .. m - 1 /\ log[p].op = "helper" /\ log[h].agent = "coder"
      BY <2>4, <2>5, <2>8 DEF Descends, HelpedBy
    <3>2. p \in 1 .. Len(log) /\ p # 0 BY <2>0, <2>4, <3>1
    <3>3. log[p].parent = h /\ h \in 1 .. p - 1 BY <3>1, <3>2 DEF LineageInv, Descends
    <3>4. p \in A BY <2>4, <3>2 DEF ClosedUnderParents
    <3> HIDE DEF p, h
    <3>5. h \in A
      <4>1. h # 0 BY <3>2, <3>3
      <4>2. ClosedUnderParents(A) /\ p \in A /\ log[p].parent = h BY <3>3, <3>4
      <4>3. QED BY <4>1, <4>2 DEF ClosedUnderParents
    <3>6. h < m BY <2>4, <3>1, <3>3
    <3>7. QED BY <2>3, <3>1, <3>5, <3>6
  <2>9. QED BY <2>4, <2>5, <2>6, <2>7, <2>8 DEF Ops
<1>2. QED BY <1>1, GrantsInductive, LineageInductive, PTL

-----------------------------------------------------------------------------
(* How far a handle is spent, when the calls for it followed one another: a  *)
(* step that did not throw has moved its record on, or is on its way to.     *)
Closers == {"resume", "approve", "continue"}
Awaited(op) == IF op = "resume" THEN "helper_completed" ELSE "origin_pending"
Serves(c, h) == call[c].stage # "idle" /\ call[c].handle = h
Delivering(h, ops, n) ==
  \E c \in Callers : call[c].stage = "deliver" /\ Serves(c, h) /\ call[c].op \in ops /\ call[c].inv = n
Alone(h) == \A c, d \in Callers : Serves(c, h) /\ Serves(d, h) => c = d
Holds(c) ==
  /\ call[c].op \in Ops /\ (call[c].op = "invoke" => call[c].handle = 0)
  /\ call[c].op # "invoke" => call[c].handle \in Handles
  /\ call[c].op # "invoke" /\ call[c].handle \notin overlapped =>
       Known(call[c].handle) /\ records[call[c].handle].state = Awaited(call[c].op)
Delivers(c) == log[call[c].inv].op = call[c].op /\ log[call[c].inv].handle = call[c].handle
Pending(h, n) ==
  /\ log[n].result # "lost"
  /\ log[n].result # "thrown" /\ log[n].op = "helper" /\ Known(h) /\ records[h].state = "origin_pending" =>
       Delivering(h, {"helper"}, n)
  /\ log[n].result # "thrown" /\ log[n].op \in Closers /\ Known(h) => Delivering(h, Closers, n)
NotIssued(n) == n > Len(log) \/ \E c \in Callers : call[c].stage = "deliver" /\ call[c].inv = n
Unheard(n) ==
  /\ ~Known(n) /\ \A m \in 1 .. Len(log) : log[m].handle # n
  /\ \A c \in Callers : ~Serves(c, n)
Table == {h \in Handles : Known(h)}
InOrder(h) ==
  Alone(h) /\ SpentOnce(h) /\ \A n \in 1 .. Len(log) : log[n].handle = h => Pending(h, n)

HandleInv ==
  /\ \A h \in Handles \ overlapped : InOrder(h)
  /\ \A c \in Callers : call[c].stage # "idle" => Holds(c)
  /\ \A c \in Callers : call[c].stage = "deliver" => Delivers(c)
  /\ \A c, d \in Callers :
       call[c].stage = "deliver" /\ call[d].stage = "deliver" /\ call[c].inv = call[d].inv => c = d
  /\ \A n \in Handles : NotIssued(n) => Unheard(n)
  /\ Cardinality(Table) <= Capacity

(* A step of one call that delivers nothing.                                 *)
LEMMA HandlesKept ==
  ASSUME GrantInv, HandleInv, NEW c \in Callers, UNCHANGED <<log, records>>, overlapped \subseteq overlapped',
         \A d \in Callers \ {c} : call'[d] = call[d],
         call[c].stage # "deliver", call'[c].stage # "deliver",
         call'[c].stage # "idle" => Holds(c)',
         \A h \in Handles : Serves(c, h)' /\ ~Serves(c, h) =>
           Known(h) /\ (h \in overlapped' \/ \A d \in Callers \ {c} : ~Serves(d, h))
  PROVE  HandleInv'
<1>1. \A h \in Handles, d \in Callers : d # c => (Serves(d, h)' <=> Serves(d, h)) BY DEF Serves
<1>2. ASSUME NEW h \in Handles, h \notin overlapped' PROVE InOrder(h)'
  <2>1. InOrder(h) BY <1>2 DEF HandleInv
  <2>2. Alone(h)' BY <1>1, <1>2, <2>1 DEF InOrder, Alone
  <2>3. SpentOnce(h)' BY <2>1 DEF InOrder, SpentOnce, Uses
  <2>4. ASSUME NEW ops, NEW n, Delivering(h, ops, n) PROVE Delivering(h, ops, n)'
    BY <2>4 DEF Delivering, Serves
  <2>5. \A n \in 1 .. Len(log) : log[n].handle = h => Pending(h, n)'
    BY <2>1, <2>4 DEF InOrder, Pending, Known
  <2>6. QED BY <2>2, <2>3, <2>5 DEF InOrder
<1>3. ASSUME NEW d \in Callers, call'[d].stage # "idle" PROVE Holds(d)'
  <2>1. CASE d = c BY <1>3, <2>1
  <2>2. CASE d # c
    <3>1. call'[d] = call[d] /\ Holds(d) BY <1>3, <2>2 DEF HandleInv
    <3>2. QED BY <3>1 DEF Holds, Known
  <2>3. QED BY <2>1, <2>2
<1>4. \A d \in Callers : call'[d].stage = "deliver" => call'[d] = call[d] /\ Delivers(d)'
  BY DEF HandleInv, Delivers
<1>5. \A n \in Handles : NotIssued(n)' => Unheard(n)'
  <2>1. \A n \in Handles : NotIssued(n)' => NotIssued(n) BY <1>4 DEF NotIssued
  <2>2. \A n \in Handles : Unheard(n) => Unheard(n)' BY <1>1 DEF Unheard, Known, Serves
  <2>3. QED BY <2>1, <2>2 DEF HandleInv
<1>6. Table' = Table BY DEF Table, Known
<1>7. QED BY <1>2, <1>3, <1>4, <1>5, <1>6 DEF HandleInv

LEMMA BeginningsHold ==
  ASSUME GrantInv, HandleInv, NEW c \in Callers,
         \/ InvokeAgent(c) \/ ExecuteHelper(c) \/ ApproveAndExecuteHelper(c) \/ ResumeCaller(c)
         \/ ApproveNetworkAction(c) \/ ContinueAllowedNetwork(c)
  PROVE  HandleInv'
<1>1. PICK op, h, agent, parent :
        /\ op \in Ops /\ Begun(c, op, h, agent, parent)
        /\ IF op = "invoke" THEN h = 0 ELSE h \in Handles /\ Known(h) /\ records[h].state = Awaited(op)
  BY CallsBegin DEF Ops, Awaited
<1>2. /\ UNCHANGED <<log, records>> /\ \A d \in Callers \ {c} : call'[d] = call[d]
      /\ call[c].stage = "idle" /\ call'[c].stage = "begun" /\ call'[c].op = op /\ call'[c].handle = h
      /\ overlapped' = overlapped \cup {g \in {h} \ {0} : \E d \in Busy : call[d].handle = g}
  BY <1>1 DEF Begun
<1>3. Holds(c)' BY <1>1, <1>2 DEF Holds, Known
<1>4. 0 \notin Handles BY DEF Handles
<1>5. ASSUME NEW g \in Handles, Serves(c, g)'
      PROVE  Known(g) /\ (g \in overlapped' \/ \A d \in Callers \ {c} : ~Serves(d, g))
  <2>1. g = h /\ g # 0 /\ Known(g) BY <1>1, <1>2, <1>4, <1>5 DEF Serves
  <2>2. QED BY <1>2, <2>1 DEF Serves, Busy
<1>6. QED BY <1>2, <1>3, <1>5, HandlesKept

LEMMA MovesHold ==
  ASSUME GrantInv, HandleInv, NEW c \in Callers, Authorise(c) \/ Prepare(c) \/ Execute(c) \/ Fail(c)
  PROVE  HandleInv'
<1>1. CASE Authorise(c) \/ Prepare(c) \/ Execute(c)
  <2>1. /\ UNCHANGED <<log, records, overlapped>> /\ \A d \in Callers \ {c} : call'[d] = call[d]
        /\ call'[c].op = call[c].op /\ call'[c].handle = call[c].handle
        /\ call[c].stage \in Before /\ call'[c].stage \in Checked
    BY <1>1, CallMovesOn
  <2>2. Holds(c) BY <2>1 DEF HandleInv, Before
  <2>3. Holds(c)' BY <2>1, <2>2 DEF Holds, Known
  <2>4. \A h \in Handles : Serves(c, h)' => Serves(c, h) BY <2>1 DEF Serves, Before
  <2>5. call[c].stage # "deliver" /\ call'[c].stage # "deliver" BY <2>1 DEF Before, Checked
  <2>6. QED BY <2>1, <2>3, <2>4, <2>5, HandlesKept
<1>2. CASE Fail(c)
  <2>1. /\ UNCHANGED <<log, records, overlapped>> /\ \A d \in Callers \ {c} : call'[d] = call[d]
        /\ call[c].stage # "deliver" /\ call'[c].stage = "idle"
    BY <1>2 DEF Fail, GrantInv, Shaped, Idle
  <2>2. \A h \in Handles : ~Serves(c, h)' BY <2>1 DEF Serves
  <2>3. QED BY <2>1, <2>2, HandlesKept
<1>3. QED BY <1>1, <1>2

(* Of a step for the handle nothing but what threw has been committed when   *)
(* its call comes to commit: it would still be on its way to the table.      *)
LEMMA CommitsFirst ==
  ASSUME GrantInv, HandleInv, NEW c \in Callers, call[c].stage = "commit", NEW h \in Handles \ overlapped,
         call[c].handle = h, NEW m \in 1 .. Len(log), log[m].handle = h
  PROVE  \/ log[m].result = "thrown"
         \/ log[m].op \notin Closers /\ (call[c].op # "resume" => log[m].op # "helper")
<1>1. Alone(h) /\ Pending(h, m) BY DEF HandleInv, InOrder
<1>2. 0 \notin Handles BY DEF Handles
<1>3. Known(h) /\ records[h].state = Awaited(call[c].op) BY <1>2 DEF HandleInv, Holds
<1>4. \A ops : ~Delivering(h, ops, m) BY <1>1 DEF Alone, Delivering, Serves
<1>5. QED BY <1>1, <1>3, <1>4 DEF Pending, Awaited

LEMMA CommitHolds ==
  ASSUME GrantInv, HandleInv, NEW c \in Callers, Commit(c)
  PROVE  HandleInv'
<1> DEFINE n == Len(log) + 1
           k == call[c]
<1>1. /\ Shaped /\ UNCHANGED <<records, overlapped>> /\ k.stage = "commit" /\ Holds(c)
  BY DEF GrantInv, Commit, HandleInv
<1>2. /\ Len(log') = n /\ Len(log) \in Nat /\ \A i \in 1 .. Len(log) : log'[i] = log[i]
      /\ log'[n].op = k.op /\ log'[n].handle = k.handle /\ log'[n].result # "lost"
      /\ \A d \in Callers \ {c} : call'[d] = call[d]
      /\ call'[c].stage = "deliver" /\ call'[c].op = k.op /\ call'[c].handle = k.handle
      /\ call'[c].inv = n
  BY <1>1, CommittedLog
<1>3. /\ \A i \in 1 .. Len(log') : i \in 1 .. Len(log) \/ i = n
      /\ n \in 1 .. Len(log') /\ \A i \in 1 .. Len(log) : i \in 1 .. Len(log')
      /\ n \notin 1 .. Len(log)
  BY <1>2
<1>4. ASSUME NEW h, NEW d \in Callers PROVE Serves(d, h)' <=> Serves(d, h)
  BY <1>1, <1>2 DEF Serves
<1>5. \A d \in Callers : call[d].stage = "deliver" => d # c /\ call'[d] = call[d] /\ call[d].inv \in 1 .. Len(log)
  BY <1>1, <1>2 DEF GrantInv, Issued
<1>6. \A d \in Callers : call'[d].stage = "deliver" => d = c \/ (call'[d] = call[d] /\ call[d].stage = "deliver")
  BY <1>2
<1> HIDE DEF n, k
<1>7. ASSUME NEW h \in Handles, h \notin overlapped PROVE InOrder(h)'
  <2>1. InOrder(h) BY <1>7 DEF HandleInv
  <2>2. Alone(h)' BY <1>4, <2>1 DEF InOrder, Alone
  <2>3. ASSUME NEW ops
        PROVE  Uses(h, ops)' = Uses(h, ops) \cup (IF k.handle = h /\ k.op \in ops THEN {n} ELSE {})
    <3>1. \A m \in 1 .. Len(log) : log'[m].handle = log[m].handle /\ log'[m].op = log[m].op BY <1>2
    <3>2. ASSUME NEW m PROVE m \in Uses(h, ops)' <=> m \in Uses(h, ops) \/ (m = n /\ k.handle = h /\ k.op \in ops)
      BY <1>2, <1>3, <3>1 DEF Uses
    <3>3. QED BY <3>2
  <2>4. SpentOnce(h)'
    <3>1. CASE k.handle # h
      <4>1. Uses(h, Steps)' = Uses(h, Steps) BY <2>3, <3>1
      <4>2. \A i \in Uses(h, Steps) : log'[i] = log[i] BY <1>2 DEF Uses
      <4>3. QED BY <2>1, <4>1, <4>2 DEF InOrder, SpentOnce
    <3>2. CASE k.handle = h
      <4>1. ASSUME NEW i \in Uses(h, Steps)
            PROVE  log[i].result = "thrown" \/ (log[i].op = "helper" /\ k.op = "resume")
        <5>1. i \in 1 .. Len(log) /\ log[i].handle = h /\ log[i].op \in Closers \cup {"helper"}
          BY <4>1 DEF Uses, Steps, Ops, Closers
        <5>2. QED BY <1>1, <1>7, <3>2, <5>1, CommitsFirst DEF k
      <4>2. ASSUME NEW i \in Uses(h, Steps)', NEW j \in Uses(h, Steps)', i < j
            PROVE  \/ log'[i].op = "helper" /\ log'[j].op = "resume"
                   \/ log'[i].result = "thrown"
        <5>1. i \in Uses(h, Steps) /\ log'[i] = log[i]
          <6>1. i \in 1 .. Len(log') /\ j \in 1 .. Len(log') BY <4>2 DEF Uses
          <6>2. i # n BY <1>2, <4>2, <6>1
          <6>3. i \in Uses(h, Steps) BY <2>3, <6>2
          <6>4. QED BY <1>2, <6>3 DEF Uses
        <5>2. CASE j = n BY <1>2, <4>1, <5>1, <5>2
        <5>3. CASE j # n
          <6>1. j \in Uses(h, Steps) /\ log'[j] = log[j] BY <1>2, <2>3, <5>3 DEF Uses
          <6>2. QED BY <2>1, <4>2, <5>1, <6>1 DEF InOrder, SpentOnce
        <5>4. QED BY <5>2, <5>3
      <4>3. QED BY <4>2 DEF SpentOnce
    <3>3. QED BY <3>1, <3>2
  <2>5. ASSUME NEW ops, NEW m, Delivering(h, ops, m) PROVE Delivering(h, ops, m)'
    BY <1>4, <1>5, <2>5 DEF Delivering
  <2>6. ASSUME NEW m \in 1 .. Len(log'), log'[m].handle = h PROVE Pending(h, m)'
    <3>1. CASE m \in 1 .. Len(log)
      <4>1. Pending(h, m) /\ log'[m] = log[m] BY <1>2, <2>1, <2>6, <3>1 DEF InOrder
      <4>2. QED BY <1>1, <2>5, <4>1 DEF Pending, Known
    <3>2. CASE m = n
      <4>1. log'[m].op = k.op /\ log'[m].result # "lost" /\ k.handle = h BY <1>2, <2>6, <3>2
      <4>2. Serves(c, h)' BY <1>2, <4>1 DEF Serves
      <4>3. \A ops : k.op \in ops => Delivering(h, ops, m)' BY <1>2, <3>2, <4>2 DEF Delivering
      <4>4. QED BY <4>1, <4>3 DEF Pending
    <3>3. QED BY <1>3, <3>1, <3>2
  <2>7. QED BY <2>2, <2>4, <2>6 DEF InOrder
<1>8. ASSUME NEW d \in Callers, call'[d].stage # "idle" PROVE Holds(d)'
  <2>1. call'[d].op = call[d].op /\ call'[d].handle = call[d].handle /\ call[d].stage # "idle"
    BY <1>1, <1>2, <1>8 DEF k
  <2>2. QED BY <1>1, <2>1 DEF HandleInv, Holds, Known
<1>9. ASSUME NEW d \in Callers, call'[d].stage = "deliver" PROVE Delivers(d)'
  <2>1. CASE d = c BY <1>2, <2>1 DEF Delivers
  <2>2. CASE call'[d] = call[d] /\ call[d].stage = "deliver"
    BY <1>2, <1>5, <2>2 DEF HandleInv, Delivers
  <2>3. QED BY <1>6, <1>9, <2>1, <2>2
<1>10. ASSUME NEW d \in Callers, NEW e \in Callers, call'[d].stage = "deliver",
              call'[e].stage = "deliver", call'[d].inv = call'[e].inv
       PROVE  d = e
  BY <1>2, <1>3, <1>5, <1>6, <1>10 DEF HandleInv
<1>11. ASSUME NEW i \in Handles, NotIssued(i)' PROVE Unheard(i)'
  <2>1. NotIssued(i) BY <1>2, <1>3, <1>6, <1>11 DEF NotIssued, Handles, n
  <2>2. Unheard(i) BY <2>1 DEF HandleInv
  <2>3. k.handle # i BY <1>1, <2>2 DEF Unheard, Serves, k
  <2>4. QED BY <1>1, <1>2, <1>3, <1>4, <2>2, <2>3 DEF Unheard, Known
<1>12. Table' = Table BY <1>1 DEF Table, Known
<1>13. QED BY <1>1, <1>7, <1>8, <1>9, <1>10, <1>11, <1>12 DEF HandleInv

-----------------------------------------------------------------------------
(* What every delivery leaves: the handles of the other calls in order.      *)
Others(c) == Callers \ {c}
Kept(kept) == {h \in Handles : kept[h] # NoRecord}

LEMMA DeliveryHolds ==
  ASSUME GrantInv, HandleInv, NEW c \in Callers, call[c].stage = "deliver", NEW how, Delivered(c, how),
         \A g \in Handles : records'[g] # records[g] =>
           /\ g = call[c].inv \/ g = call[c].handle
           /\ g = call[c].handle => \/ records'[g] = NoRecord
                                    \/ call[c].op = "helper" /\ Known(g) /\ records'[g].state # "origin_pending",
         \A g \in Handles \ overlapped : g = call[c].handle =>
           /\ how # "lost"
           /\ how # "thrown" /\ call[c].op \in Closers => ~Known(g)'
           /\ how # "thrown" /\ call[c].op = "helper" => records'[g].state # "origin_pending",
         how = "thrown" \/ log[call[c].inv].result = "pending",
         Cardinality(Table') <= Capacity
  PROVE  HandleInv'
<1> DEFINE k == call[c]
<1>1. /\ Shaped /\ k.inv \in 1 .. Len(log) /\ Holds(c) /\ Delivers(c) /\ UNCHANGED overlapped
  BY DEF GrantInv, Issued, HandleInv, Delivered
<1>2. /\ Len(log') = Len(log) /\ Len(log) \in Nat
      /\ \A m \in 1 .. Len(log) :
           /\ log'[m].op = log[m].op /\ log'[m].handle = log[m].handle
           /\ log'[m].result = IF m = k.inv THEN how ELSE log[m].result
      /\ call'[c].stage = "idle" /\ \A d \in Others(c) : call'[d] = call[d]
  BY <1>1, DeliveredLog DEF LogKept, Lasting, LogFields, Idle, Others
<1>3. \A d \in Callers : call'[d].stage # "idle" => d \in Others(c) /\ call'[d] = call[d]
  BY <1>2 DEF Others
<1>4. ASSUME NEW h, NEW d \in Callers PROVE Serves(d, h)' <=> d # c /\ Serves(d, h)
  BY <1>2 DEF Serves, Others
<1>5. k.inv \in Handles => Unheard(k.inv) BY DEF HandleInv, NotIssued
<1> HIDE DEF k
<1>6. ASSUME NEW g \in Handles \ overlapped, NEW m \in 1 .. Len(log), log[m].handle = g
      PROVE  Pending(g, m)'
  <2>1. Alone(g) /\ Pending(g, m) BY <1>6 DEF HandleInv, InOrder
  <2>2. g # k.inv BY <1>5, <1>6 DEF Unheard
  <2>3. log'[m].result # "lost"
    <3>1. CASE m = k.inv BY <1>1, <1>2, <1>6, <3>1 DEF Delivers, k
    <3>2. CASE m # k.inv BY <1>2, <2>1, <3>2 DEF Pending
    <3>3. QED BY <3>1, <3>2
  <2>4. ASSUME NEW ops, Delivering(g, ops, m), ~Delivering(g, ops, m)'
        PROVE  k.handle = g /\ k.op \in ops /\ k.inv = m
    <3>1. PICK d \in Callers : call[d].stage = "deliver" /\ Serves(d, g) /\ call[d].op \in ops /\ call[d].inv = m
      BY <2>4 DEF Delivering
    <3>2. d = c
      <4>1. SUFFICES ASSUME d # c PROVE FALSE OBVIOUS
      <4>2. call'[d] = call[d] /\ Serves(d, g)' BY <1>2, <1>4, <3>1, <4>1 DEF Others
      <4>3. QED BY <2>4, <3>1, <4>2 DEF Delivering
    <3>3. QED BY <3>1, <3>2 DEF Serves, k
  <2>5. Known(g)' => Known(g) BY <2>2, <1>6 DEF Known, k
  <2>6. log'[m].result # "thrown" => log[m].result # "thrown" BY <1>2 DEF k
  <2>7. ASSUME log'[m].result # "thrown", log[m].op = "helper", Known(g)',
               records'[g].state = "origin_pending"
        PROVE  Delivering(g, {"helper"}, m)'
    <3>1. records'[g] = records[g] BY <2>2, <2>7, <1>6 DEF Known, k
    <3>2. Delivering(g, {"helper"}, m) BY <2>1, <2>5, <2>6, <2>7, <3>1 DEF Pending
    <3>3. QED BY <1>2, <1>6, <2>4, <2>7, <3>2 DEF k
  <2>8. ASSUME log'[m].result # "thrown", log[m].op \in Closers, Known(g)' PROVE Delivering(g, Closers, m)'
    <3>1. Delivering(g, Closers, m) BY <2>1, <2>5, <2>6, <2>8 DEF Pending
    <3>2. QED BY <1>2, <1>6, <2>4, <2>8, <3>1 DEF k
  <2>9. log'[m].op = log[m].op BY <1>2
  <2>10. QED BY <2>3, <2>7, <2>8, <2>9 DEF Pending
<1>7. ASSUME NEW g \in Handles, g \notin overlapped PROVE InOrder(g)'
  <2>1. InOrder(g) BY <1>7 DEF HandleInv
  <2>2. Alone(g)' BY <1>4, <2>1 DEF InOrder, Alone
  <2>3. ASSUME NEW ops PROVE Uses(g, ops)' = Uses(g, ops) BY <1>2 DEF Uses
  <2>4. SpentOnce(g)'
    <3>1. \A m \in Uses(g, Steps) : m \in 1 .. Len(log) BY DEF Uses
    <3>2. \A m \in Uses(g, Steps) :
            log'[m].op = log[m].op /\ (log[m].result = "thrown" => log'[m].result = "thrown")
      BY <1>2, <3>1 DEF k
    <3>3. QED BY <2>1, <2>3, <3>2 DEF InOrder, SpentOnce
  <2>5. \A m \in 1 .. Len(log') : log'[m].handle = g => Pending(g, m)' BY <1>2, <1>6, <1>7
  <2>6. QED BY <2>2, <2>4, <2>5 DEF InOrder
<1>8. ASSUME NEW d \in Callers, call'[d].stage # "idle" PROVE Holds(d)'
  <2>1. d # c /\ call'[d] = call[d] /\ Holds(d) BY <1>3, <1>8 DEF HandleInv, Others
  <2>2. ASSUME call[d].op # "invoke", call[d].handle \notin overlapped
        PROVE  records'[call[d].handle] = records[call[d].handle]
    <3> DEFINE g == call[d].handle
    <3>1. g \in Handles /\ Serves(d, g) BY <1>8, <2>1, <2>2 DEF Holds, Serves
    <3>2. g # k.inv BY <1>5, <3>1 DEF Unheard
    <3>3. g # k.handle
      <4>1. Alone(g) BY <2>2, <3>1 DEF HandleInv, InOrder
      <4>2. QED BY <2>1, <3>1, <4>1 DEF Alone, Serves, k
    <3>4. QED BY <3>1, <3>2, <3>3 DEF k
  <2>3. QED BY <1>1, <2>1, <2>2 DEF Holds, Known
<1>9. ASSUME NEW d \in Callers, call'[d].stage = "deliver" PROVE Delivers(d)'
  <2>1. call'[d] = call[d] BY <1>3, <1>9
  <2>2. call[d].inv \in 1 .. Len(log) /\ Delivers(d) BY <1>9, <2>1 DEF GrantInv, Issued, HandleInv
  <2>3. QED BY <1>2, <2>1, <2>2 DEF Delivers
<1>10. ASSUME NEW d \in Callers, NEW e \in Callers, call'[d].stage = "deliver",
              call'[e].stage = "deliver", call'[d].inv = call'[e].inv
       PROVE  d = e
  BY <1>3, <1>10 DEF HandleInv
<1>11. ASSUME NEW i \in Handles, NotIssued(i)' PROVE Unheard(i)'
  <2>1. NotIssued(i) BY <1>2, <1>3, <1>11 DEF NotIssued
  <2>2. i # k.inv
    <3>1. ASSUME i = k.inv PROVE FALSE
      <4>1. ~(i > Len(log)) BY <1>1, <1>2, <3>1 DEF k
      <4>2. PICK d \in Callers : call'[d].stage = "deliver" /\ call'[d].inv = i
        BY <1>2, <1>11, <4>1 DEF NotIssued
      <4>3. d # c /\ call[d].stage = "deliver" /\ call[d].inv = k.inv BY <1>3, <3>1, <4>2 DEF Others
      <4>4. QED BY <4>3 DEF HandleInv, k
    <3>2. QED BY <3>1
  <2>3. Unheard(i) BY <2>1 DEF HandleInv
  <2>4. ~Known(i)'
    <3>1. ~Known(i) /\ i # k.handle BY <2>3 DEF Unheard, Serves, k
    <3>2. QED BY <2>2, <3>1 DEF Known, k
  <2>5. QED BY <1>2, <1>4, <2>3, <2>4 DEF Unheard
<1>12. QED BY <1>1, <1>7, <1>8, <1>9, <1>10, <1>11 DEF HandleInv

(* The table holds no more than before, or what there was room for.          *)
LEMMA TableBounds ==
  ASSUME NEW S \in SUBSET Handles, NEW T \in SUBSET Handles
  PROVE  /\ IsFiniteSet(S) /\ Cardinality(S) \in Nat
         /\ T \subseteq S => Cardinality(T) <= Cardinality(S)
         /\ T \subseteq S /\ T # S => Cardinality(T) < Cardinality(S)
         /\ \A n : T \subseteq S \cup {n} => Cardinality(T) <= Cardinality(S) + 1
<1>1. IsFiniteSet(Handles) BY InvocationBound, FS_Interval DEF Handles
<1>2. IsFiniteSet(S) /\ Cardinality(S) \in Nat BY <1>1, FS_Subset, FS_CardinalityType
<1>3. ASSUME T \subseteq S
      PROVE  Cardinality(T) <= Cardinality(S) /\ (T # S => Cardinality(T) < Cardinality(S))
  <2>1. T \in SUBSET S BY <1>3
  <2>2. Cardinality(T) <= Cardinality(S) /\ (Cardinality(S) = Cardinality(T) => S = T) BY <1>2, <2>1, FS_Subset
  <2>3. IsFiniteSet(T) BY <1>2, <2>1, FS_Subset
  <2>4. Cardinality(T) \in Nat BY <2>3, FS_CardinalityType
  <2>5. QED BY <1>2, <2>2, <2>4
<1>4. ASSUME NEW n, T \subseteq S \cup {n} PROVE Cardinality(T) <= Cardinality(S) + 1
  <2>0. /\ IsFiniteSet(S \cup {n})
        /\ Cardinality(S \cup {n}) = IF n \in S THEN Cardinality(S) ELSE Cardinality(S) + 1
    BY <1>2, FS_AddElement
  <2>1. /\ IsFiniteSet(S \cup {n}) /\ Cardinality(S \cup {n}) \in Nat
        /\ Cardinality(S \cup {n}) <= Cardinality(S) + 1
    BY <1>2, <2>0
  <2>2. Cardinality(T) <= Cardinality(S \cup {n}) BY <1>4, <2>1, FS_Subset
  <2>3. IsFiniteSet(T) BY <1>4, <2>1, FS_Subset
  <2>4. Cardinality(T) \in Nat BY <2>3, FS_CardinalityType
  <2>5. QED BY <1>2, <2>1, <2>2, <2>4
<1>5. QED BY <1>2, <1>3, <1>4

LEMMA HelperDelivered ==
  ASSUME GrantInv, HandleInv, NEW c \in Callers, DeliverHelper(c)
  PROVE  HandleInv'
<1> DEFINE h == call[c].handle
           done == HelperDone(call[c], records[h].executed)
           how == IF Known(h) THEN "returned" ELSE "lost"
<1>1. /\ call[c].stage = "deliver" /\ call[c].op = "helper" /\ Holds(c) /\ DOMAIN records = Handles
      /\ h \in Handles /\ log[call[c].inv].result = "pending"
  BY DEF DeliverHelper, Returns, HandleInv, Holds, GrantInv, Shaped
<1>2. Delivered(c, how) /\ records' = IF Known(h) THEN [records EXCEPT ![h] = done] ELSE records
  BY DEF DeliverHelper
<1>3. done.state = "helper_completed" BY DEF HelperDone
<1> HIDE DEF done
<1>4. /\ \A g \in Handles : g # h => records'[g] = records[g]
      /\ Known(h) => records'[h] = done
      /\ ~Known(h) => records'[h] = records[h]
  BY <1>1, <1>2
<1>5. h \notin overlapped => Known(h) BY <1>1 DEF Holds
<1>6. Table' \subseteq Table BY <1>4 DEF Table, Known
<1>7. Cardinality(Table') <= Capacity
  <2>1. Table \in SUBSET Handles /\ Table' \in SUBSET Handles BY DEF Table
  <2>2. /\ Cardinality(Table') <= Cardinality(Table) /\ Cardinality(Table) <= Capacity
        /\ Cardinality(Table') \in Nat /\ Cardinality(Table) \in Nat /\ Capacity \in Nat
    BY <1>6, <2>1, TableBounds, CapacityAssumption DEF HandleInv
  <2>3. QED BY <2>2
<1> HIDE DEF h, how
<1>8. \A g \in Handles : records'[g] # records[g] =>
        g = h /\ Known(g) /\ records'[g].state # "origin_pending"
  BY <1>3, <1>4
<1>9. h \notin overlapped => how # "lost" /\ records'[h].state # "origin_pending"
  BY <1>3, <1>4, <1>5 DEF how
<1>10. call[c].op \notin Closers BY <1>1 DEF Closers
<1>11. QED BY <1>1, <1>2, <1>7, <1>8, <1>9, <1>10, DeliveryHolds DEF h

LEMMA IssueHolds ==
  ASSUME GrantInv, HandleInv, NEW c \in Callers, Returns(c), NEW kept, Issue(c, kept),
         call[c].op \in {"invoke"} \cup Closers,
         kept = IF call[c].op = "invoke" THEN records ELSE [records EXCEPT ![call[c].handle] = NoRecord]
  PROVE  HandleInv'
<1> DEFINE h == call[c].handle
           n == call[c].inv
           full == Cardinality(Kept(kept)) >= Capacity
<1>1. /\ Holds(c) /\ DOMAIN records = Handles /\ 0 \notin Handles
      /\ call[c].stage = "deliver" /\ log[call[c].inv].result = "pending"
  BY DEF Returns, HandleInv, GrantInv, Shaped, Handles
<1>2. n \in Handles => n # h BY <1>1 DEF HandleInv, NotIssued, Unheard, Serves
<1>3. \A g \in Handles : kept[g] = IF call[c].op # "invoke" /\ g = h THEN NoRecord ELSE records[g]
  BY <1>1
<1>4. PICK how : /\ Delivered(c, how)
                 /\ records' = kept \/ (records' = [kept EXCEPT ![n] = NewRecord] /\ ~full)
                 /\ how = "lost" => full
  BY DEF Issue, Kept
<1>5. \A g \in Handles : /\ g # n => records'[g] = kept[g]
                         /\ g = n => records'[g] = kept[g] \/ ~full
  BY <1>1, <1>4
<1>6. Kept(kept) \in SUBSET Handles /\ Table \in SUBSET Handles /\ Table' \in SUBSET Handles /\ Kept(kept) \subseteq Table
  BY <1>3 DEF Kept, Table, Known
<1>7. /\ Cardinality(Kept(kept)) <= Cardinality(Table) /\ Cardinality(Table) <= Capacity
      /\ Cardinality(Kept(kept)) \in Nat /\ Cardinality(Table) \in Nat /\ Capacity \in Nat
      /\ Cardinality(Table') \in Nat
      /\ Kept(kept) # Table => Cardinality(Kept(kept)) < Cardinality(Table)
  BY <1>6, TableBounds, CapacityAssumption DEF HandleInv
<1>8. Cardinality(Table') <= Capacity
  <2>1. CASE full
    <3>1. Table' = Kept(kept) BY <1>4, <1>5, <2>1 DEF Table, Kept, Known
    <3>2. QED BY <1>7, <3>1
  <2>2. CASE ~full
    <3>1. Table' \subseteq Kept(kept) \cup {n} BY <1>5 DEF Table, Kept, Known
    <3>2. Cardinality(Table') <= Cardinality(Kept(kept)) + 1 BY <1>6, <3>1, TableBounds
    <3>3. QED BY <1>7, <2>2, <3>2
  <2>3. QED BY <2>1, <2>2
<1> HIDE DEF h, n, full
<1>9. \A g \in Handles : records'[g] # records[g] =>
        (g = n \/ g = h) /\ (g = h => records'[g] = NoRecord)
  BY <1>2, <1>3, <1>5
<1>10. ASSUME NEW g \in Handles \ overlapped, g = h
       PROVE  how # "lost" /\ (call[c].op \in Closers => ~Known(g)') /\ call[c].op # "helper"
  <2>1. call[c].op \in Closers /\ call[c].op \notin {"invoke", "helper"}
    BY <1>1, <1>10 DEF Holds, h, Closers
  <2>2. Known(g) BY <1>1, <1>10, <2>1 DEF Holds, h
  <2>3. kept[g] = NoRecord /\ records'[g] = NoRecord BY <1>2, <1>3, <1>5, <1>10, <2>1
  <2>4. g \in Table /\ g \notin Kept(kept) BY <2>2, <2>3 DEF Table, Kept
  <2>5. ~full BY <1>7, <2>4 DEF full
  <2>6. QED BY <1>4, <2>1, <2>3, <2>5 DEF Known
<1>11. QED BY <1>1, <1>4, <1>8, <1>9, <1>10, DeliveryHolds DEF h, n

(* A throw after the commit leaves the table, and its handle, as they were.  *)
LEMMA LateThrowHolds ==
  ASSUME GrantInv, HandleInv, NEW c \in Callers, FailAfterCommit(c)
  PROVE  HandleInv'
<1>1. call[c].stage = "deliver" /\ Delivered(c, "thrown") /\ UNCHANGED records
  BY DEF FailAfterCommit
<1>2. Cardinality(Table') <= Capacity
  <2>1. Table' = Table BY <1>1 DEF Table, Known
  <2>2. QED BY <2>1 DEF HandleInv
<1>3. QED BY <1>1, <1>2, DeliveryHolds

-----------------------------------------------------------------------------
LEMMA HandlesInductive == Spec => []HandleInv
<1>1. Init => HandleInv
  <2> SUFFICES ASSUME Init PROVE HandleInv OBVIOUS
  <2>1. /\ Len(log) = 0 /\ 1 .. Len(log) = {} /\ \A c \in Callers : call[c].stage = "idle"
        /\ \A h \in Handles : ~Known(h)
    BY DEF Init, Idle, Known
  <2>2. Table = {} BY <2>1 DEF Table
  <2>3. Cardinality(Table) <= Capacity BY <2>2, FS_EmptySet, CapacityAssumption
  <2>4. \A h \in Handles : InOrder(h) BY <2>1 DEF InOrder, Alone, Serves, SpentOnce, Uses
  <2>5. \A n \in Handles : Unheard(n) BY <2>1 DEF Unheard, Serves
  <2>6. QED BY <2>1, <2>3, <2>4, <2>5 DEF HandleInv
<1>2. GrantInv /\ HandleInv /\ [Next]_vars => HandleInv'
  <2> SUFFICES ASSUME GrantInv, HandleInv, [Next]_vars PROVE HandleInv' OBVIOUS
  <2>1. ASSUME NEW c \in Callers,
               \/ InvokeAgent(c) \/ ExecuteHelper(c) \/ ApproveAndExecuteHelper(c) \/ ResumeCaller(c)
               \/ ApproveNetworkAction(c) \/ ContinueAllowedNetwork(c)
        PROVE  HandleInv'
    BY <2>1, BeginningsHold
  <2>2. ASSUME NEW c \in Callers, Authorise(c) \/ Prepare(c) \/ Execute(c) \/ Fail(c) PROVE HandleInv'
    BY <2>2, MovesHold
  <2>3. ASSUME NEW c \in Callers, Commit(c) PROVE HandleInv' BY <2>3, CommitHolds
  <2>4. ASSUME NEW c \in Callers, DeliverHelper(c) PROVE HandleInv' BY <2>4, HelperDelivered
  <2>5. ASSUME NEW c \in Callers, DeliverResume(c) PROVE HandleInv'
    BY <2>5, IssueHolds DEF DeliverResume, Closers
  <2>6. ASSUME NEW c \in Callers, DeliverInvoke(c) PROVE HandleInv'
    BY <2>6, IssueHolds DEF DeliverInvoke
  <2>7. CASE LoseTask \/ EndTask \/ DecidePlan \/ SetRules \/ UNCHANGED vars
    <3>1. UNCHANGED <<log, records, call, overlapped>>
      BY <2>7 DEF LoseTask, EndTask, DecidePlan, SetRules, vars
    <3>2. QED BY <3>1 DEF HandleInv, InOrder, Alone, SpentOnce, Uses, Pending, Delivering, Serves,
            Holds, Delivers, NotIssued, Unheard, Table, Known
  <2>8. CASE Restart
    <3>1. /\ UNCHANGED <<log, overlapped>> /\ \A c \in Callers : call'[c].stage = "idle"
          /\ \A h \in Handles : ~Known(h)'
      BY <2>8 DEF Restart, Idle, Known
    <3>2. Table' = {} BY <3>1 DEF Table
    <3>3. Cardinality(Table') <= Capacity BY <3>2, FS_EmptySet, CapacityAssumption
    <3>4. \A h \in Handles \ overlapped : InOrder(h)'
      BY <3>1 DEF HandleInv, InOrder, Alone, Serves, SpentOnce, Uses, Pending
    <3>5. \A n \in Handles : NotIssued(n)' => Unheard(n)'
      BY <3>1 DEF HandleInv, NotIssued, Unheard, Serves
    <3>6. QED BY <3>1, <3>3, <3>4, <3>5 DEF HandleInv
  <2>9. ASSUME NEW c \in Callers, FailAfterCommit(c) PROVE HandleInv' BY <2>9, LateThrowHolds
  <2>10. QED BY <2>1, <2>2, <2>3, <2>4, <2>5, <2>6, <2>7, <2>8, <2>9 DEF Next
<1>3. QED BY <1>1, <1>2, GrantsInductive, PTL DEF Spec

(* As long as the calls for a handle do not overlap, only a step whose call  *)
(* threw after its record was saved is taken again, and however many records *)
(* wait, only such a throw or the end of the server loses what a step found. *)
THEOREM HandlesAreSpentOnce == Spec => []HandleUsedOnce
<1>1. HandleInv => HandleUsedOnce
  BY DEF HandleInv, InOrder, Pending, HandleUsedOnce, Uses
<1>2. QED BY <1>1, HandlesInductive, PTL
=============================================================================
