------------------------------ MODULE DepthSolver -----------------------------
(***************************************************************************)
(* DepthSolver::solveGame: the shortest win of a game by iterative         *)
(* deepening, and from it a line of problem files for every winning move.  *)
(* One step is one pass of the deepening or one problem file.              *)
(***************************************************************************)
EXTENDS BestPlay, Sequences

CONSTANT Depths    \* the problem sizes a DepthSolver is made with

VARIABLES root, problemSize,
          depth,   \* the pass of the deepening, then answerDepth
          dumped,  \* the problem files: position, depth and best moves
          left,    \* the winning moves whose line is still to be made
          call     \* the subproblem generated next, as <<call>>, or <<>>

depthVars == <<root, problemSize, depth, dumped, left, call>>

\* WithinDepth[d]: where findWinningPath and mustLossWithin answer yes for
\* the limit d.  A draw is neither.  The order of the moves, the network's
\* or the board's, and stopping at the first answer do not change it.
WithinDepth[d \in -1 .. Max(Depths \cup {0})] ==
  IF d = -1 THEN [wins |-> {}, losses |-> {}]
  ELSE LET ended(p) == p \in Terminal
           before == WithinDepth[d - 1]
           now == {p \in Terminal : Winner[p] = Mover[p]}
       IN [wins |->
             {p \in Position :
                IF ended(p) THEN Winner[p] = Player(p)
                ELSE \/ d > 1 /\ Children[p] \cap now # {}   \* look ahead
                     \/ d > 0 /\ Children[p] \cap before.losses # {}},
           losses |->
             {p \in Position :
                IF ended(p) THEN p \in now
                ELSE d > 0 /\ Children[p] \subseteq before.wins}]

findWinningPath(p, d) == p \in WithinDepth[d].wins
mustLossWithin(p, d) == p \in WithinDepth[d].losses

findWinMoves(p, d) == {c \in Children[p] : mustLossWithin(c, d)}

\* Mutant: the loser's moves are tried as deep as the problem says.
NonLossSame(p, d) == {c \in Children[p] : ~findWinningPath(c, d)}

nonLossMoves(p, d) == {c \in Children[p] : ~findWinningPath(c, d - 1)}

dumpProblem(p, d, moves) ==
  dumped' = Append(dumped, [pos |-> p, depth |-> d, moves |-> moves])

-----------------------------------------------------------------------------
DepthInit ==
  /\ root \in Problem
  /\ problemSize \in Depths
  /\ depth = 0
  /\ dumped = <<>>
  /\ left = {}
  /\ call = <<>>

\* The program asks for another game once this one is done.
SolveGame ==
  /\ dumped # <<>> /\ left = {} /\ call = <<>>
  /\ root' \in Problem
  /\ problemSize' \in Depths
  /\ depth' = 0
  /\ dumped' = <<>>
  /\ UNCHANGED <<left, call>>

Deepen ==
  /\ dumped = <<>>
  /\ findWinMoves(root, depth) = {}
  /\ depth < problemSize
  /\ depth' = depth + 1
  /\ UNCHANGED <<root, problemSize, dumped, left, call>>

DumpAnswer ==
  /\ dumped = <<>>
  /\ LET moves == findWinMoves(root, depth)
     IN \/ /\ moves # {}
           /\ dumpProblem(root, depth, moves)
           /\ left' = moves
           /\ UNCHANGED depth
        \/ /\ moves = {} /\ depth = problemSize
           /\ dumpProblem(root, -1, {})
           /\ depth' = -1
           /\ UNCHANGED left
  /\ UNCHANGED <<root, problemSize, call>>

\* The next winning move: generateLossSubproblem of the game after it.
TakeWinMove ==
  /\ call = <<>>
  /\ \E c \in left :
       /\ left' = left \ {c}
       /\ call' = <<[pos |-> c, toWin |-> FALSE, depth |-> depth - 1]>>
  /\ UNCHANGED <<root, problemSize, depth, dumped>>

\* The call returns, or goes on with the first move: any of the list.
Follow(moves, toWin) ==
  IF moves = {} THEN call' = <<>>
  ELSE \E c \in moves :
         call' = <<[pos |-> c, toWin |-> toWin, depth |-> call[1].depth - 1]>>

generateWinSubproblem ==
  /\ call # <<>> /\ call[1].toWin /\ call[1].depth >= 0
  /\ LET moves == findWinMoves(call[1].pos, call[1].depth)
     IN dumpProblem(call[1].pos, call[1].depth, moves) /\ Follow(moves, FALSE)
  /\ UNCHANGED <<root, problemSize, depth, left>>

generateLossSubproblem ==
  /\ call # <<>> /\ ~call[1].toWin /\ call[1].depth >= 0
  /\ LET moves == nonLossMoves(call[1].pos, call[1].depth)
     IN dumpProblem(call[1].pos, call[1].depth, moves) /\ Follow(moves, TRUE)
  /\ UNCHANGED <<root, problemSize, depth, left>>

\* Nothing is dumped below depth 0.
LineEnds ==
  /\ call # <<>> /\ call[1].depth < 0
  /\ call' = <<>>
  /\ UNCHANGED <<root, problemSize, depth, dumped, left>>

DepthNext ==
  \/ SolveGame \/ Deepen \/ DumpAnswer \/ TakeWinMove
  \/ generateWinSubproblem \/ generateLossSubproblem \/ LineEnds

-----------------------------------------------------------------------------
\* A file with an answer says how long best play lasts and names all the
\* moves that keep to it, the loser's as well as the winner's.  A file
\* without one says there is no win within problemSize + 1 plies.
Exact(f) ==
  IF f.depth = -1
  THEN /\ f.pos = root /\ f.moves = {}
       /\ ~(Victor[root] = Player(root) /\ Plies[root] <= problemSize + 1)
  ELSE /\ Victor[f.pos] = Player(root)
       /\ Plies[f.pos] = f.depth + 1
       /\ f.moves = {c \in Kept(f.pos) : Plies[c] = f.depth}
       /\ f.moves # {}

\* Every file continues an earlier one, and each winning move got a line of
\* files down to depth 0.
LinesComplete ==
  /\ \A i \in 2 .. Len(dumped) :
       \E j \in 1 .. i - 1 :
         /\ dumped[i].pos \in dumped[j].moves
         /\ dumped[i].depth = dumped[j].depth - 1
  /\ (dumped # <<>> /\ left = {} /\ call = <<>> /\ depth >= 0) =>
       /\ Len(dumped) = 1 + Cardinality(dumped[1].moves) * depth
       /\ dumped[Len(dumped)].depth = 0

BestPlayDumped ==
  (\A i \in DOMAIN dumped : Exact(dumped[i])) /\ LinesComplete

===============================================================================
