------------------------- MODULE ChangeSetDecision -------------------------
(***************************************************************************)
(* What is promised about one CODER change set (ADR 0003, "Decision state  *)
(* machine"): it is decided at most once, for good; it is recorded as      *)
(* applied only after the source tree held exactly its result; and while   *)
(* the source may be half written it is neither pending nor decided.       *)
(***************************************************************************)
CONSTANT ChangeSets

VARIABLES
  state,   \* state[x]: pending, applying_interrupted, applied or rejected
  proven   \* change sets whose exact result the source has held since their
           \* latest apply began

decisionVars == <<state, proven>>

DecisionInit ==
  /\ state = [x \in ChangeSets |-> "pending"]
  /\ proven = {}

Becomes(x, from, to) == state[x] = from /\ state' = [state EXCEPT ![x] = to]

Begin(x) ==
  /\ Becomes(x, "pending", "applying_interrupted")
  /\ proven' \in {proven \cup {x}, proven \ {x}}

Undo(x) == Becomes(x, "applying_interrupted", "pending") /\ UNCHANGED proven

Apply(x) ==
  /\ x \in proven
  /\ Becomes(x, "applying_interrupted", "applied")
  /\ UNCHANGED proven

Reject(x) == Becomes(x, "pending", "rejected") /\ UNCHANGED proven

\* The source changes, by an apply or by its user.
Witness == proven \subseteq proven' /\ proven' \subseteq ChangeSets /\ UNCHANGED state

DecisionNext ==
  \/ \E x \in ChangeSets : Begin(x) \/ Undo(x) \/ Apply(x) \/ Reject(x)
  \/ Witness

DecisionSpec == DecisionInit /\ [][DecisionNext]_decisionVars
=============================================================================
