CONSTANTS
  NULL = NULL
  Fds = {3, 4}
  Coros = {c1, c2}
  Size = 2
  Disciplined = TRUE
SPECIFICATION Spec
PROPERTIES
  ReadersAreServed
