CONSTANTS
  BoardSize = 4
  WinLength = 3
  MaxMoves <- MCMaxMoves
  FirstPos <- MCFirstPos
SPECIFICATION Spec
INVARIANTS
  Consistent
  VerdictsAreTrue
