---------------------------- MODULE MCPathFinding ----------------------------
(* Every map of 3 by 3 tiles with few obstacles, for TLC. *)
EXTENDS PathFinding
=============================================================================
