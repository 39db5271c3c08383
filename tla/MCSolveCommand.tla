---------------------------- MODULE MCSolveCommand ----------------------------
(* The solve command on the games of MCGameTree, draws among them. *)
EXTENDS SolveCommand, MCGameTree

MCDepths == 0 .. 4
MCLimits == 0 .. 9
===============================================================================
