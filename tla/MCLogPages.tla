----------------------------- MODULE MCLogPages -----------------------------
(* Model values for TLC; calls are interchangeable.  WalkIsWhole reads a    *)
(* walk in its last step, and only if calls were apart; no other            *)
(* property reads the walk or the clock.  States that differ in what none   *)
(* of them will read again need not be told apart.                          *)
EXTENDS LogPages, TLC

Symmetry == Permutations(Calls)

OpenWalks == IF apart /\ walk # "over" THEN <<logsVars>> ELSE <<vars, stamped>>
=============================================================================
