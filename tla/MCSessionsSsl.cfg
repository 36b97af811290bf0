CONSTANTS
  peer1 = peer1
  peer2 = peer2
  Clients <- OneSsl
  Says <- OneSays
  MaxSent <- OneLine
  Room = 1
  Length = 2
SPECIFICATION Spec
INVARIANTS
  ReadsText
CHECK_DEADLOCK FALSE
