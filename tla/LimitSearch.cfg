SPECIFICATION FairSpec
CONSTANTS
  Setups <- MCSetups
  Crossings <- MCCrossings
  Blur = 0
  Haze = 2
  AbsAcc = 1
  RelAcc = 8
  MaxFailures = 1
  None = None
CHECK_DEADLOCK FALSE
INVARIANTS TypeOK Accurate
PROPERTIES Ends
