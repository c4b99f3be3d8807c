----------------------------- MODULE MCWindows -----------------------------
(* The terminal and one of the three visualisers, whose code is the same. *)
EXTENDS Windows, TLC

CONSTANT Visualiser

Programs == <<Terminal, Visualiser>>

BlocksAlike == Permutations(Blocks)
=============================================================================
