-------------------------- MODULE MCChangeSetApply --------------------------
(* An instance of ChangeSetApply: two sessions hold one task in turn, whose   *)
(* CODER produces two change sets with different results.                     *)
EXTENDS ChangeSetApply, TLC

CONSTANTS s1, s2, t1, x1, x2, r1, r2

OneTask       == (x1 :> t1) @@ (x2 :> t1)
OwnResults    == (x1 :> r1) @@ (x2 :> r2)
EitherSession == {s1, s2} \X {t1}

\* The sessions may be exchanged.
SessionsAlike == Permutations({s1, s2})
=============================================================================
