CONSTANTS
  NULL = NULL
  Coros = {c1, c2, c3}
  Events = {}
  Waits = {"r0"}
  Durations = {}
  SecTicks = 2
  IdleTicks = 3
  MaxTime = 0
  MaxQueued = 0
  Disciplined = TRUE
  MaxItems = 2
SPECIFICATION SyncSpec
INVARIANTS
  LatchReleasesAll
