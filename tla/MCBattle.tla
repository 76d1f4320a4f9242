------------------------------ MODULE MCBattle ------------------------------
(* A small battle for TLC: a map of 3 by 2 tiles. *)
EXTENDS Battle

MCRocks       == {<<0, 1>>}
MCCamp        == <<2, 1>>
MCPlayerStart == <<0, 0>>
MCEnemyStart  == <<2, 0>>
=============================================================================
