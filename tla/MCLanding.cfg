SPECIFICATION CurtainFairSpec
CONSTANTS
  Cols = 1
  Rows = 1
  RatioNum = 7
  RatioDen = 20
  MaxRuns = 2
PROPERTIES
  RevealEarned
  CurtainOpens
CHECK_DEADLOCK FALSE
