SPECIFICATION Spec
CONSTANTS
  Agents = {a1, a2}
  Kinds = {"goto", "mute", "close"}
  MaxActions = 2
  MaxEvents = 1
SYMMETRY AgentSymmetry
CHECK_DEADLOCK FALSE
INVARIANTS OneDriver OwnAccess AnswerIsFinal
PROPERTIES FenceHolds
