CONSTANTS
  Position <- MCPosition
  Problem <- MCProblem
  Children <- MCChildren
  Parent <- MCParent
  Terminal <- MCTerminal
  Winner <- MCWinner
  Mover <- MCMover
  Key <- MCKey
  EarlyResults = {"open", "white", "none"}
  UseTT = FALSE
  SimControl = "count"
  SimCount = 3
  MaxActions = 2
  TTSize = 6
SPECIFICATION Spec
INVARIANT NodesInBounds
