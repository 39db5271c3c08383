CONSTANTS
  EarlyResults = {"open", "white", "none"}
  Position <- MCPosition
  Problem <- MCProblem
  Children <- MCChildren
  Parent <- MCParent
  Terminal <- MCTerminal
  Winner <- MCWinner
  Mover <- MCMover
  Key <- MCKey
  Depths <- MCDepths
  Limits <- MCLimits
SPECIFICATION Spec
INVARIANTS BestPlayDumped SizesAreMinimal
