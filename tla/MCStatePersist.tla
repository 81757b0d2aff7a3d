--------------------------- MODULE MCStatePersist ---------------------------
(* StatePersist on a small instance: handlers are interchangeable, and so  *)
(* are inodes.                                                             *)
EXTENDS StatePersist, TLC

Symmetric == Permutations(Writers) \cup Permutations(Files)
=============================================================================
