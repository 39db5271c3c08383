CONSTANTS
  NumGPU = 1
  NumCPU = 2
  BatchSize = 2
  NetRotation = 2
  SimCount = 2
  MaxMoves = 2
SPECIFICATION Spec
INVARIANT PolicyOfOwnColor
