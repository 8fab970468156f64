SPECIFICATION FairSpec
CONSTANTS
  Attempts = {1, 2, 3, 4}
  MaxSends = 2
  MaxRetries = 1
CHECK_DEADLOCK FALSE
PROPERTIES
  EndsOnce
  OneRun
  TurnEnds
