------------------------------- MODULE GameTree -------------------------------
(***************************************************************************)
(* The game the solvers work on, as they use it: positions, legal moves,   *)
(* terminal positions and their winner.  A position is the state of a Game *)
(* object with its history, so the positions reachable from a problem form *)
(* a tree and a TreeNode stands for one position.  What differs between    *)
(* positions the transposition table takes for the same is in Key.         *)
(***************************************************************************)
EXTENDS Integers, FiniteSetsExt

CONSTANTS Position,   \* all positions of all problems
          Problem,    \* the positions a solver may be asked about
          Children,   \* Children[p]: the positions after one legal move
          Parent,     \* Parent[c]: the position before the last move, undo()
          Terminal,   \* isTerminal()
          Winner,     \* Winner[p], p terminal: eval(), "none" for a draw
          Mover,      \* Mover[p]: the colour of the move that led to p
          Key         \* Key[p]: getTTHashKey()

Color == {"black", "white"}
AgainstColor(c) == IF c = "black" THEN "white" ELSE "black"

ASSUME GameAssumption ==
  /\ Problem \subseteq Position
  /\ Terminal \subseteq Position
  /\ Children \in [Position -> SUBSET Position]
  /\ \A p \in Position : IsFiniteSet(Children[p])
  /\ \A p \in Position \ Terminal : Children[p] # {}
  /\ \A p \in Position : \A c \in Children[p] : Parent[c] = p /\ c \notin Problem
  /\ Winner \in [Terminal -> Color \cup {"none"}]
  /\ Mover \in [Position -> Color]
  /\ \A p \in Position : \A c \in Children[p] : Mover[c] = AgainstColor(Mover[p])
  /\ DOMAIN Key = Position

\* SOLUTION_STATUS: of a node, for the player who moved there.
Solved == {"WIN", "LOSS"}
Status == Solved \cup {"UNKNOWN"}

ReverseStatus(s) == CASE s = "WIN" -> "LOSS"
                [] s = "LOSS" -> "WIN"
                [] OTHER -> "UNKNOWN"

\* A draw is a loss for the player who made the last move.
TerminalStatus(p) == IF Winner[p] = Mover[p] THEN "WIN" ELSE "LOSS"

\* The true outcome of each position for the player who moved there: that
\* player wins if every answer loses.
Outcome[p \in Position] ==
  IF p \in Terminal THEN TerminalStatus(p)
  ELSE IF \A c \in Children[p] : Outcome[c] = "LOSS" THEN "WIN" ELSE "LOSS"

\* The moves a game may still have: the rules end every game, and so the
\* recursions over a game are well founded.
Height[p \in Position] ==
  IF p \in Terminal THEN 1 ELSE 1 + Max({Height[c] : c \in Children[p]})
ASSUME FiniteHeight ==
  /\ Height \in [Position -> Nat \ {0}]
  /\ \A p \in Position \ Terminal : \A c \in Children[p] : Height[c] < Height[p]
ASSUME FiniteGame ==
  Outcome = [p \in Position |->
               IF p \in Terminal THEN TerminalStatus(p)
               ELSE IF \A c \in Children[p] : Outcome[c] = "LOSS"
                    THEN "WIN" ELSE "LOSS"]

\* Positions with one key have one outcome: what getTTHashKey does not hold,
\* the forbidden repetitions before all, does not decide the game.
ASSUME KeyAssumption ==
  \A p, q \in Position : Key[p] = Key[q] => Outcome[p] = Outcome[q]

===============================================================================
