---------------------------- MODULE ProblemSolver -----------------------------
(***************************************************************************)
(* What a solver promises BaseSolver::runSolver: asked about a problem, it *)
(* answers once, and the answer is the true outcome for the player to move *)
(* (the reverse of the outcome for the one who moved there) or UNKNOWN.    *)
(***************************************************************************)
EXTENDS GameTree

VARIABLES problem,   \* the problem being solved, or the last one
          answer     \* "none" while it is being solved

vars == <<problem, answer>>

Init == problem \in Problem /\ answer = "UNKNOWN"

Ask ==
  /\ answer # "none"
  /\ problem' \in Problem
  /\ answer' = "none"

Answer ==
  /\ answer = "none"
  /\ answer' \in {"UNKNOWN", ReverseStatus(Outcome[problem])}
  /\ UNCHANGED problem

Next == Ask \/ Answer

Spec == Init /\ [][Next]_vars

===============================================================================
