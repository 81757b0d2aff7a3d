------------------------------ MODULE MCRooms ------------------------------
(* Rooms on a small instance: names are interchangeable. *)
EXTENDS Rooms, TLC

Symmetric == Permutations(Names)
=============================================================================
