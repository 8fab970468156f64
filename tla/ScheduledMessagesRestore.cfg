SPECIFICATION Spec
CONSTANTS
  a1 = a1
  a2 = a2
  r1 = r1
  r2 = r2
  r3 = r3
  k1 = k1
  NoKey = NoKey
  Agents = {a1, a2}
  Reqs = {r1, r2, r3}
  From <- MCFrom
  To <- MCTo
  At <- MCAt
  Key <- MCKey
  MaxPending = 2
  Horizon = 1
  Deadline = 1
  SlowRestore = TRUE
  MaxClock = 4
  MaxEntries = 3
  MaxFails = 1
  MaxCrashes = 1
INVARIANT AcceptedNotLost
