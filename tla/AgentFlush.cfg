SPECIFICATION FairSpec
CONSTANTS
  Items = {i1, i2}
  MaxEvents = 3
  Hot = TRUE
  Waits = {"sample", "account", "cap"}
CHECK_DEADLOCK FALSE
INVARIANTS
  NoLostWakeup
  StateFitsTurn
  AcceptedOnce
PROPERTIES
  QueueMoves
