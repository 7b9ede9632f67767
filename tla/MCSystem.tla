------------------------------ MODULE MCSystem ------------------------------
(***************************************************************************)
(* Values of the constants of System for TLC.                              *)
(***************************************************************************)
EXTENDS System, TLC

CONSTANTS client, main, c1, c2, c3, d1, d2, d3

MCChild == {c1}
MCTwoChildren == {c1, c2}
MCChildren == {c1, c2, c3}

(* Nothing orders the children; for invariants only. *)
MCSymmetry == Permutations(MCTwoChildren)

(* Every block is different, so that a block in the wrong place shows.     *)
MCData == {d1, d2, d3}

MCTwoBlocks == <<d1, d2>>
MCThreeBlocks == <<d1, d2, d3>>
=============================================================================
