CONSTANTS
  NULL = NULL
  Backends = {"poll", "select", "kqueue"}
  Fds = {3, 4}
  Coros = {c1, c2, c3, c4}
  Size = 3
  OutputMax = 2
  Disciplined = TRUE
SYMMETRY CoroSymmetry
SPECIFICATION Spec
INVARIANTS
  PollersTypeOK
  OverrunsNeedWaiters
  ChangesFit
  BlockedIsRegistered
PROPERTIES
  ReadyAreServed
  OnlyReadyAreWoken
