SPECIFICATION Spec
CONSTANTS
  Sessions = {s1, s2, s3}
  Callers = {c1, c2}
  Turns = {}
  Convs = {k1, k2}
  Ops = {"swap", "release"}
  NoSession = NoSession
  NoCaller = NoCaller
  NoTurn = NoTurn
  NoConv = NoConv
SYMMETRY Symmetry
CHECK_DEADLOCK FALSE
INVARIANTS
  NoLeakedProcess
  DrainBeforeInstall
PROPERTY InstallsOnCurrentToken
