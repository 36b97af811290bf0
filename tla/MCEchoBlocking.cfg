CONSTANTS
  NULL = NULL
  Clients = {a, b, c}
  NTrans = 2
  Inherits = {FALSE}
  MaxLost = 1
SPECIFICATION Spec
INVARIANTS
  NoCallBlocks
