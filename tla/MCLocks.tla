------------------------------ MODULE MCLocks ------------------------------
(* Model values for TLC; tasks are not permuted: liveness.                  *)
EXTENDS Locks
=============================================================================
