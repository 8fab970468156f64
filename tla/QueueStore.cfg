SPECIFICATION Spec
CONSTANTS
  Agents = {a1, a2}
  Msgs = {m1, m2}
  QueueMax = 1
  Silent = {a1}
  WriteFails = TRUE
  MaxOutlived = 1
  NoAgent = NoAgent
SYMMETRY Symmetry
INVARIANTS
  AckedNeverLost
  RefusedStaysOut
  AcceptedOnce
