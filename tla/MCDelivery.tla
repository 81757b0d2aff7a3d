---------------------------- MODULE MCDelivery -----------------------------
(* Model values for TLC; names and urls are not permuted: liveness.         *)
EXTENDS Delivery
=============================================================================
