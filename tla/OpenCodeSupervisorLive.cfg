SPECIFICATION FairSpec
CONSTANTS
  Clients = {c1}
  Tasks = {t1}
  Pids = {1, 2, 3}
  MaxRev = 1
  MaxWaits = 1
  MaxFaults = 1
CHECK_DEADLOCK FALSE
PROPERTIES
  CallsReturn
  IdleServerStops
