SPECIFICATION Spec
CONSTANTS
  Agents = {a1, a2}
  NoAgent = none
  MaxArrays = 5
  MaxEntries = 5
  HighWater = 1
  Budget = 1
  MaxQueued = 2
  Window = 1
  MaxCredit = 1
  MaxBreaks = 1
  MaxEvents = 3
SYMMETRY AgentSymmetry
CHECK_DEADLOCK FALSE
INVARIANTS
  InSync
  NoMixedChat
  BacklogSound
  NoStall
