------------------------------ MODULE SetSums -------------------------------
(***************************************************************************)
(* The sum of q[x] over a finite set S.                                    *)
(***************************************************************************)
EXTENDS Integers, FiniteSets, Folds

Total(S, q) == MapThenFoldSet(+, 0, LAMBDA x : q[x], LAMBDA s : CHOOSE x \in s : TRUE, S)
=============================================================================
