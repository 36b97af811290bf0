CONSTANTS
  NULL = NULL
  Coros = {c1, c2, c3}
  Events = {1, 2, 3}
  Waits = {"r0"}
  Durations = {0, 2}
  SecTicks = 2
  IdleTicks = 3
  MaxTime = 3
  MaxQueued = 0
  Disciplined = TRUE
SPECIFICATION Spec
INVARIANTS
  TypeOK
  OneWakeUp
  NoDeadCoro
  FramesIntact
  SleepersSleepEnough
  SleepersInOrder
PROPERTIES
  ScheduledRuns
  SleepersWake
  ExitStops
  FifoScheduler
