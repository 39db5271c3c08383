CONSTANTS
  Windows = {w1, w2}
  Given <- MCGiven
  HighestName = 5
  Lines <- MCLines
  Directories <- MCDirectories
  LowestName <- MCLowestName
  MaxCrashes = 2
  MaxReruns = 2
SPECIFICATION Spec
INVARIANTS AnswersMatch HalfDoneIsExplained
PROPERTY Completed
CHECK_DEADLOCK FALSE
