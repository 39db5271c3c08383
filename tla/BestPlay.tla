------------------------------- MODULE BestPlay -------------------------------
(***************************************************************************)
(* Reference definitions for the solvers that measure a proof: who wins a  *)
(* position by best play, in how many plies, and how many nodes the        *)
(* smallest tree that proves it has.                                       *)
(***************************************************************************)
EXTENDS GameTree

Player(p) == AgainstColor(Mover[p])       \* getTurnColor()

\* Who can force a win: the player to move, the other one, or neither.
Victor[p \in Position] ==
  IF p \in Terminal THEN Winner[p]
  ELSE LET after == {Victor[c] : c \in Children[p]}
       IN CASE Player(p) \in after -> Player(p)
            [] after = {Mover[p]} -> Mover[p]
            [] OTHER -> "none"

Kept(p) == {c \in Children[p] : Victor[c] = Victor[p]}

\* Plies to the end: the victor hurries, the other player resists.
Plies[p \in Position] ==
  IF p \in Terminal \/ Victor[p] = "none" THEN 0
  ELSE 1 + (IF Victor[p] = Player(p) THEN Min({Plies[c] : c \in Kept(p)})
                                     ELSE Max({Plies[c] : c \in Kept(p)}))

\* One answer of the victor and every answer of the other player.
ProofSize[p \in Position] ==
  IF p \in Terminal THEN 1
  ELSE IF Victor[p] = Player(p) THEN 1 + Min({ProofSize[c] : c \in Kept(p)})
  ELSE 1 + MapThenSumSet(LAMBDA c : ProofSize[c], Kept(p))

===============================================================================
