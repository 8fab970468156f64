SPECIFICATION Spec
CONSTANTS
  Clients = {c1, c2, c3}
  Tasks = {t1}
  Pids = {1, 2}
  MaxRev = 1
  MaxWaits = 0
  MaxFaults = 1
CONSTRAINT TwoAfterFault
SYMMETRY Symmetry
CHECK_DEADLOCK FALSE
PROPERTIES
  StopsSpareUse
  FreshTurn
  ShutdownLeavesNothing
