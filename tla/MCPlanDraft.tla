----------------------------- MODULE MCPlanDraft -----------------------------
(* An instance of PlanDraft: two plan texts that may be exchanged.           *)
EXTENDS PlanDraft, TLC

CONSTANTS a, b

TextsAlike == Permutations({a, b})
=============================================================================
