CONSTANTS
  NULL = NULL
  Clients = {a, b, c}
  NTrans = 2
  Inherits = {TRUE, FALSE}
  MaxLost = 1
SPECIFICATION Spec
INVARIANTS
  EchoTypeOK
  EchoesMatch
  ShutdownComesLast
PROPERTIES
  BothEnd
CHECK_DEADLOCK FALSE
