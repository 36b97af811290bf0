CONSTANTS
  NULL = NULL
  Coros = {c1, c2}
  Events = {1, 2}
  Waits = {"r0"}
  Durations = {1}
  SecTicks = 2
  IdleTicks = 3
  MaxTime = 2
  MaxQueued = 2
  Disciplined = FALSE
SPECIFICATION Spec
INVARIANTS
  FramesIntact
PROPERTIES
  DeadStaysDead
  FifoSafety
