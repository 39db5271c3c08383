----------------------------- MODULE SolveCommand -----------------------------
(***************************************************************************)
(* The engine's solve command with the solver the build has chosen: the    *)
(* typedef in GTPEngine.cpp, a DepthSolver at present, could be either.    *)
(***************************************************************************)
EXTENDS GameTree

CONSTANTS Depths, Limits   \* the problem sizes of either solver

\* The sizes are the values of an int.
ASSUME SizesAssumption ==
  /\ Depths \in SUBSET Nat /\ IsFiniteSet(Depths)
  /\ Limits \in SUBSET Nat /\ IsFiniteSet(Limits)

\* A problem is a game still to be played: solveGame and findWinMoves try the
\* moves of the game they are given without asking it isTerminal.
ASSUME ProblemIsOpen == Problem \cap Terminal = {}

VARIABLES Solver,
          root, problemSize,            \* the game and the limit of both
          depth, dumped, left, call,     \* a DepthSolver's
          kind, unsaid, said            \* a SizeSolver's

D == INSTANCE DepthSolver
S == INSTANCE SizeSolver WITH game <- root, limit <- problemSize

depthOnly == <<depth, dumped, left, call>>
sizeOnly == <<kind, unsaid, said>>

Init ==
  \/ /\ Solver = "DepthSolver" /\ D!DepthInit
     /\ kind = "none" /\ unsaid = {} /\ said = {}
  \/ /\ Solver = "SizeSolver" /\ S!SizeInit
     /\ depth = 0 /\ dumped = <<>> /\ left = {} /\ call = <<>>

DepthSolves == Solver = "DepthSolver" /\ D!DepthNext /\ UNCHANGED sizeOnly
SizeSolves == Solver = "SizeSolver" /\ S!SizeNext /\ UNCHANGED depthOnly

Next == (DepthSolves \/ SizeSolves) /\ UNCHANGED Solver

Spec ==
  Init /\ [][Next]_<<Solver, root, problemSize, depthOnly, sizeOnly>>

BestPlayDumped == D!BestPlayDumped
SizesAreMinimal == S!SizesAreMinimal

===============================================================================
