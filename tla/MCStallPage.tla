----------------------------- MODULE MCStallPage -----------------------------
(* One slot that two collects meet in, and one lost call.                     *)
EXTENDS StallPage, TLC

MCSymmetry == Permutations(Collects)
=============================================================================
