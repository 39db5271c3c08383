CONSTANTS
  Position <- MCPosition
  Problem <- MCProblem
  Children <- MCChildren
  Parent <- MCParent
  Terminal <- MCTerminal
  Winner <- MCWinner
  Mover <- MCMover
  Key <- MCKey
  EarlyResults = {"open", "white", "none"}
  UseTT = TRUE
  SimControl = "time"
  SimCount = 2
  MaxActions = 2
  TTSize = 6
SPECIFICATION Spec
INVARIANT NodesInBounds
