CONSTANTS
  Position <- MCPosition
  Problem <- MCProblem
  Children <- MCChildren
  Parent <- MCParent
  Terminal <- MCTerminal
  Winner <- MCWinner
  Mover <- MCMover
  Key <- MCKey
  EarlyResults = {"open", "none"}
  Configs <- MCConfigs
  SimCount = 3
  TTSize = 16
  Home <- MCHome
SPECIFICATION FairSpec
INVARIANTS
  TypeOK
  MarksAreOutcomes
  UnsolvedIsOpen
  OverrunIsBounded
PROPERTIES
  EntriesStayFound
  ImplementsPromise
  EveryProblemIsSolved
