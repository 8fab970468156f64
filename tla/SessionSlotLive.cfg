SPECIFICATION FairSpec
CONSTANTS
  Sessions = {s1, s2}
  Callers = {c1, c2}
  Turns = {t1}
  Convs = {}
  Ops = {"swap", "release", "stop"}
  NoSession = NoSession
  NoCaller = NoCaller
  NoTurn = NoTurn
  NoConv = NoConv
CHECK_DEADLOCK FALSE
INVARIANTS
  NoStrandedTurn
  PresendKeepsSession
PROPERTIES
  ImplementsTable
  CallsReturn
