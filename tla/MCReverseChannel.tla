-------------------------- MODULE MCReverseChannel --------------------------
(* ReverseChannel on a small instance, without symmetry: its run checks    *)
(* liveness.                                                               *)
EXTENDS ReverseChannel
=============================================================================
