SPECIFICATION Spec
CONSTANTS
  Msgs = {s1, s2, m1}
  Steers = {s1, s2}
  Members = {m1}
  PushModes = {TRUE, FALSE}
  MaxSteers = 2
  MaxSessions = 2
CHECK_DEADLOCK FALSE
INVARIANTS
  ReadOnce
  NeverLost
  ChatTellsTheTruth
PROPERTIES
  CancelIsFinal
  QueueEmpties
