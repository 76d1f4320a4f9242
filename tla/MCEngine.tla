------------------------------ MODULE MCEngine ------------------------------
(* An instance of Engine for TLC. *)
EXTENDS Engine

MCAddress == 1 .. 3
MCFrameTicks == {0, 1, 2}
=============================================================================
