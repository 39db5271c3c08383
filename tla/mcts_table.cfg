CONSTANTS
  Position <- MCPosition
  Problem <- MCProblem
  Children <- MCChildren
  Parent <- MCParent
  Terminal <- MCTerminal
  Winner <- MCWinner
  Mover <- MCMover
  Key <- MCKey
  EarlyResults = {"open", "white", "none"}
  UseTT = TRUE
  SimControl = "other"
  SimCount = 4
  MaxActions = 2
  TTSize = 6
SPECIFICATION FairSpec
INVARIANTS
  TypeOK
  MarksAreOutcomes
  EntriesAreOutcomes
  SelectionFindsChild
  AnswerMoveWins
PROPERTIES
  ImplementsPromise
  EveryProblemIsSolved
