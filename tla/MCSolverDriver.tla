---------------------------- MODULE MCSolverDriver ----------------------------
(* Two windows and three problems: one unplayable, one solve_back comes to.   *)
EXTENDS SolverDriver

MCGiven == <<5, 4, 3>>
MCLines == {"a", "b"}
MCLowestName == -3

\* Files of a series, each named by its length, and files whose names say
\* nothing of the games: 5 holds two moves and 3 holds four of another line.
Directory(five, three) ==
  (5 :> five) @@ (4 :> NoGame) @@ (3 :> three)
MCDirectories ==
  {Directory(FirstMoves("a", 5), FirstMoves("a", 3)),
   Directory(FirstMoves("a", 2), FirstMoves("b", 4))}
===============================================================================
