----------------------------- MODULE MCMCTSSolver ------------------------------
(* The MCTS solver on the games of MCGameTree. *)
EXTENDS MCTSSolver, MCGameTree
===============================================================================
