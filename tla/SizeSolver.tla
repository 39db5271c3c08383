------------------------------ MODULE SizeSolver ------------------------------
(***************************************************************************)
(* SizeSolver: the size of the smallest tree that proves each move of a    *)
(* game won or lost, within a limit, with pruning on both sides.  Results  *)
(* are pairs of the outcome, 1, 0 (not solved, or a draw) or -1 for the    *)
(* player to move, and the size.                                           *)
(***************************************************************************)
EXTENDS BestPlay, SequencesExt

CONSTANT Limits    \* the problem sizes a SizeSolver is made with

VARIABLES game, limit,
          kind,     \* "win": solveWinMoves, "loss": solveLossMoves
          unsaid,   \* the moves not yet printed
          said      \* the printed moves with what was printed of them

sizeVars == <<game, limit, kind, unsaid, said>>

Unsolved == [outcome |-> 0, size |-> 0]
Opposite(r) == [r EXCEPT !.outcome = -@]

\* The legal moves in the order of the board.
Moves(p) == SetToSeq(Children[p])

AtTerminal(p) ==
  [outcome |-> CASE Winner[p] = Player(p) -> 1
                 [] Winner[p] = "none" -> 0
                 [] OTHER -> -1,
   size |-> 1]

\* Below[c]: both searches of the child c for every limit.  A win found
\* narrows the limit for the moves after it.
WinTree(p, s, below) ==
  LET try(r, c) ==
        LET b == Opposite(below[c].loss[r.limit])
        IN IF b.outcome = 1
           THEN LET best == IF r.outcome = 1 /\ r.win < b.size
                            THEN r.win ELSE b.size
                IN [outcome |-> 1, tree |-> r.tree + b.size,
                    win |-> best, limit |-> best - 1]
           ELSE [r EXCEPT !.outcome = IF @ > b.outcome THEN @ ELSE b.outcome,
                          !.tree = @ + b.size]
      r == FoldLeft(try, [outcome |-> -1, tree |-> 1, win |-> -1,
                          limit |-> s - 1], Moves(p))
  IN [outcome |-> r.outcome,
      size |-> IF r.outcome = 1 THEN 1 + r.win ELSE r.tree]

findWinTreeSize(p, s, below) ==
  CASE s <= 0 -> Unsolved
    [] s > 0 /\ p \in Terminal -> AtTerminal(p)
    [] OTHER -> WinTree(p, s, below)

\* Mutant: the node itself is not counted.
ShareOfAll(p, s) == s \div Cardinality(Children[p])

\* If all branches fit the limit, one of them fits an even share.
share(p, s) == (s - 1) \div Cardinality(Children[p])

\* Those that fit are counted first, the others with what is left.
LossTree(p, s, below) ==
  LET even(c) == Opposite(below[c].win[share(p, s)])
      passed == {c \in Children[p] : even(c).outcome = -1}
      try(r, c) ==
        LET b == Opposite(below[c].win[s - r.size])
        IN IF r.done \/ c \in passed THEN r
           ELSE CASE b.outcome = -1 -> [r EXCEPT !.size = @ + b.size]
                  [] b.outcome = 1 ->
                       [done |-> TRUE, outcome |-> 1, size |-> 1 + b.size]
                  [] OTHER -> [done |-> TRUE, outcome |-> 0, size |-> 0]
      r == FoldLeft(try,
             [done |-> FALSE, outcome |-> -1,
              size |-> 1 + MapThenSumSet(LAMBDA c : even(c).size, passed)],
             Moves(p))
  IN IF passed = {} THEN Unsolved
     ELSE [outcome |-> r.outcome, size |-> r.size]

findLossTreeSize(p, s, below) ==
  CASE s <= 0 -> Unsolved
    [] s > 0 /\ p \in Terminal -> AtTerminal(p)
    [] s > 0 /\ p \notin Terminal /\ share(p, s) = 0 -> Unsolved
    [] OTHER -> LossTree(p, s, below)

Searches[p \in Position] ==
  LET below == [c \in Children[p] |-> Searches[c]]
      sizes == 0 .. Max(Limits \cup {0})
  IN [win |-> [s \in sizes |-> findWinTreeSize(p, s, below)],
      loss |-> [s \in sizes |-> findLossTreeSize(p, s, below)]]

-----------------------------------------------------------------------------
Ask ==
  /\ game' \in Problem
  /\ limit' \in Limits
  /\ kind' \in {"win", "loss"}
  /\ unsaid' = Children[game']
  /\ said' = {}

SizeInit ==
  /\ game \in Problem
  /\ limit \in Limits
  /\ kind \in {"win", "loss"}
  /\ unsaid = Children[game]
  /\ said = {}

SolveMoves == unsaid = {} /\ Ask

Say(result) ==
  \E c \in unsaid :
    /\ unsaid' = unsaid \ {c}
    /\ said' = said \cup {[move |-> c, info |-> Opposite(result[c])]}
    /\ UNCHANGED <<game, limit, kind>>

solveWinMoves ==
  kind = "win" /\ Say([c \in unsaid |-> Searches[c].loss[limit]])

solveLossMoves ==
  kind = "loss" /\ Say([c \in unsaid |-> Searches[c].win[limit]])

SizeNext == SolveMoves \/ solveWinMoves \/ solveLossMoves

-----------------------------------------------------------------------------
\* solveWinMoves prints 1 exactly for the moves whose proof as a winning
\* move has at most limit nodes, and then the size of the smallest one;
\* solveLossMoves prints -1 likewise for losing moves.  The other sign is
\* printed for no move it is not true of.
SizesAreMinimal ==
  \A m \in said :
    LET by == IF kind = "win" THEN Player(game) ELSE Mover[game]
        sign == IF kind = "win" THEN 1 ELSE -1
        c == m.move
    IN /\ m.info.outcome = sign
            <=> Victor[c] = by /\ ProofSize[c] <= limit
       /\ m.info.outcome = sign => m.info.size = ProofSize[c]
       /\ m.info.outcome = -sign => Victor[c] = AgainstColor(by)

===============================================================================
