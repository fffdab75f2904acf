---------------------------- MODULE MCStallScene ----------------------------
(* Three slots and two customers, one less than the canvas has: with three, a *)
(* run with its liveness takes longer than five minutes.                      *)
EXTENDS StallScene
=============================================================================
