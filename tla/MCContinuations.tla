-------------------------- MODULE MCContinuations ---------------------------
(***************************************************************************)
(* Continuations for TLC: CODER and RESEARCHER are invoked; CODER asks for *)
(* PLANNER and for network, RESEARCHER for REVIEWER and for CODER.         *)
(***************************************************************************)
EXTENDS Continuations, TLC

Asks(agent, target, purpose) ==
  [target |-> target, purpose |-> purpose,
   handoff |-> [caller |-> agent, target |-> target, purpose |-> purpose]]

Reply(agent, warnings, calls, actions, body) ==
  [agent |-> agent, outcome |-> "success", warnings |-> warnings, calls |-> calls,
   actions |-> actions, body |-> body]

Review(verdict) == [reviewStatus |-> verdict, report |-> "json"]

MCReplies ==
  { Reply("coder", 0, <<Asks("coder", "planner", "plan_revision")>>, <<"git_push", "network">>,
          [workRecord |-> "json"]),
    Reply("researcher", 0, <<>>, <<"network">>, [researchArtifact |-> "other"]),
    Reply("planner", 0, <<>>, <<>>,
          [draftPlanMarkdown |-> "text", consultation |-> "revision_required"]),
    Reply("researcher", 0, <<Asks("researcher", "coder", "research"),
                             Asks("researcher", "reviewer", "research")>>,
          <<>>, [researchArtifact |-> "json"]),
    Reply("reviewer", 0, <<>>, <<>>, Review("PASS")),
    Reply("reviewer", 0, <<>>, <<>>, Review("PASS_WITH_WARNINGS")) }

Edges == {<<"coder", "planner">>, <<"researcher", "coder">>, <<"researcher", "reviewer">>}
RulesWith(edge, net) ==
  [calls |-> [e \in Edges |-> edge],
   actions |-> [a \in Actions |-> IF a = "network" THEN net ELSE "ask"]]
MCRuleSets == {RulesWith("allow", "ask"), RulesWith("ask", "allow")}
Symmetry == Permutations(Callers)
=============================================================================
